---- MODULE Spec2Model ----
(***************************************************************************)
(* A model of the harvesting engine of league-data-analysis:               *)
(*   - RateLimiter and RiotAPIClient._make_request   (src/src/riot_api.py) *)
(*   - the match collector                      (src/src/collect_matches.py)*)
(*   - the player collector                     (src/src/collect_players.py)*)
(*   - the mastery collector                    (src/src/collect_mastery.py)*)
(*   - the store operations they use                        (src/src/db.py) *)
(*                                                                         *)
(* Time is counted in ticks of 100 ms, the resolution of                   *)
(* RateLimiter.RATE_LIMIT_BUFFER: one second is 10 ticks.                  *)
(***************************************************************************)
EXTENDS Integers, Sequences, FiniteSets, TLC

VARIABLES
    \* ---- clock and ShutdownCoordinator
    now,                   \* time.time(), in ticks
    shutdown_event,        \* _shutdown_event.is_set()
    \* ---- RateLimiter (one (endpoint_group, region) key)
    per_second_requests,   \* deque of timestamps, head first
    per_2min_requests,     \* deque of timestamps, head first
    reset_time,            \* when reset last ran, -1 before the first time
    lock,                  \* owner of RateLimiter.lock, 0 when free
    \* ---- one _make_request call per thread
    pc,                    \* position of each thread
    requests,              \* number of _make_request calls the thread has begun
    attempt,               \* the loop variable of `for attempt in range(max_retries)`
    wake,                  \* the tick at which the thread's current sleep ends
    hint,                  \* retry_after read from the last 429, in seconds
    result,                \* what _make_request gave its caller
    resp_log,              \* history: the responses the thread received, in order
    sleep_log,             \* history: <<kind, seconds>> of each sleep outside the limiter
    reset_count,           \* history: number of limiter.reset() calls of the thread
    release_log,           \* history: <<tick, cool-down end known at that tick>> per release
    cooldown_end,          \* history: latest (tick of a 429) + its retry-after
    \* ---- the store (db.py), one region
    players,               \* table players: sequence of rows, in rowid order
    match_ids,             \* table match_ids: set of match ids
    match_participants,    \* table match_participants: set of rows
    champion_mastery,      \* table champion_mastery: set of rows
    collection_progress,   \* table collection_progress: key -> status
    \* ---- the remote service, fixed for the whole behaviour
    remote_match,          \* match id -> responses to get_match and the payload
    remote_match_ids,      \* puuid -> the list get_match_ids_by_puuid returns
    remote_league,         \* (tier, division) -> the pages of league entries
    remote_mastery,        \* puuid -> the answer of get_all_champion_mastery
    \* ---- the running collector (its main thread)
    task,                  \* which collector runs: "players", "matches", "mastery"
    run,                   \* 1: first run, 2: the same collection run again
    snapshot,              \* history: the row counts when the first run ended
    db_failures,           \* history: storage writes that failed for good
    units_started,         \* history: units of work that began their remote request
    cpc,                   \* position of the collector
    \* ---- collect_matches.collect_all_for_region
    target,
    group,                 \* index into TIER_GROUPS
    puuids,
    pidx,
    match_list,
    midx,
    new_matches,
    total_new,
    failed_match_ids,      \* the deferred-retry map, as the sequence of its keys
    cur_match,             \* the payload process_match holds
    fetched,               \* history: match ids process_match asked the service for
    \* ---- collect_players.collect_all_for_region and collect_tier_division
    unit,                  \* index of the (tier, division) pair
    entries,
    eidx,
    players_added,
    total,
    \* ---- collect_mastery.collect_mastery_for_region
    puuid_list,
    submitted,             \* calls given to the pool so far
    unit_state,            \* call -> "new", "queued", "running", "finished"
    yielded,               \* futures as_completed has handed to the loop
    buffer,
    collected,
    committed,             \* the batches insert_mastery_batch has committed for the collector, in order
    \* ---- writes of units that finish in any order
    units_chosen,          \* the units whose writes are made
    pending,               \* the writes not made yet
    batch,                 \* the mastery buffer, in arrival order
    \* ---- main of a collector
    main_kind,             \* which collector's main runs
    mpc,                   \* position of main
    ridx,                  \* index of the region in `for region in regions`
    region_state,          \* region -> "pending", "running", "returned", "raised", "cancelled"
    handled,               \* region futures the as_completed loop has handled
    errors,
    \* ---- one `with self.get_connection()` of the store
    conn,                  \* "none", "open", "closed"
    tx,                    \* the transaction: "none", "open", "committed", "rolled_back"
    xpc,                   \* position inside get_connection
    commit_attempt,        \* `attempt` of _retry_on_locked
    commit_log,            \* what each conn.commit() did, in order
    commit_sleeps,         \* the seconds of each time.sleep(wait), in order
    raised,                \* the error get_connection lets out, or "none"
    \* ---- RiotAPIClient.limiters
    limiters,              \* key -> index of its RateLimiter in `instances`, 0 while it has none
    limiter_lock,          \* owner of self.limiter_lock, 0 when free
    instances,             \* every RateLimiter created: its key and the keys of the calls it served
    gpc,                   \* position of each thread in _get_limiter
    gkey,                  \* the key each thread asked for
    missing,               \* what `key not in self.limiters` gave each thread
    received,              \* the <<key, instance>> pairs each thread was given, in order
    gets                   \* _get_limiter calls each thread has made

limVars == <<per_second_requests, per_2min_requests, lock, reset_time>>
clockVars == <<now, shutdown_event>>
storeVars == <<players, match_ids, match_participants, champion_mastery,
               collection_progress>>
remoteVars == <<remote_match, remote_match_ids, remote_league, remote_mastery>>
runVars == <<task, run, snapshot, db_failures, units_started>>
matchVars == <<target, group, puuids, pidx, match_list, midx, new_matches, total_new,
               failed_match_ids, cur_match, fetched>>
playerVars == <<unit, entries, eidx, players_added, total>>
masteryVars == <<puuid_list, submitted, unit_state, yielded, buffer, collected, committed>>
writeVars == <<units_chosen, pending, batch>>
mainVars == <<main_kind, mpc, ridx, region_state, handled, errors>>
connVars == <<conn, tx, xpc, commit_attempt, commit_log, commit_sleeps, raised>>
registryVars == <<limiters, limiter_lock, instances, gpc, gkey, missing, received, gets>>
sideVars == <<mainVars, connVars, registryVars>>
collVars == <<storeVars, remoteVars, runVars, cpc, matchVars, playerVars, masteryVars,
              writeVars, sideVars>>
reqVars == <<pc, requests, attempt, wake, hint, result, resp_log, sleep_log,
             reset_count, release_log, cooldown_end>>

----------------------------------------------------------------------------
(* Bounds of the model *)

NumThreads == 2        \* threads sharing the limiter
PerSecond == 1         \* limits['per_second'] given to the limiter
Per2Min == 4           \* limits['per_2min'] given to the limiter
FineTimeMax == 3       \* single ticks are taken up to here; later the clock jumps to the next wake-up
MaxTime == 5000        \* the clock stops here
MaxRequests == 2       \* _make_request calls one thread makes in a row
MaxCalls == 4          \* the same, for the thread that has the limiter to itself
FineSecondMax == 11    \* single ticks are taken up to here where the end of the first second matters
Max429 == 1            \* 429 responses the service gives while threads share the limiter

(* Program constants, in ticks or seconds as the code has them *)

TicksPerSecond == 10
RATE_LIMIT_BUFFER == 1           \* 0.1 s
SecondWindow == 10               \* `now - 1`
TwoMinWindow == 1200             \* `now - 120`
max_retries == 3                 \* default of _make_request
DefaultRetryAfter == 1           \* headers.get('Retry-After', 1)

Threads == 1..NumThreads
RetryAfters == {DefaultRetryAfter, 5}
Responses == {"200", "429", "400", "404", "502", "503", "500", "timeout", "connerr"}

None == "None"
Payload == "payload"
TransientAPIError == "TransientAPIError"

\* the None a failed request returns, where a match payload is expected
NoMatch ==
    [is_none |-> TRUE, has_info |-> FALSE, queueId |-> 0, participants |-> 0,
     gameDuration |-> 0]

Max(a, b) == IF a >= b THEN a ELSE b

RECURSIVE Pow2(_)
Pow2(n) == IF n = 0 THEN 1 ELSE 2 * Pow2(n - 1)

----------------------------------------------------------------------------
(* RateLimiter *)

per_second_limit == PerSecond
per_2min_limit == (Per2Min * 95) \div 100

RECURSIVE _clean_old_requests(_, _, _)
_clean_old_requests(q, t, window) ==
    IF q # <<>> /\ Head(q) < t - window
    THEN _clean_old_requests(Tail(q), t, window)
    ELSE q

\* as WindowWait, the window counting as full one request later
WindowWait_OneMore(q, limit, window, t) ==
    IF Len(q) > limit /\ Head(q) + window > t
    THEN Head(q) + window - t + RATE_LIMIT_BUFFER
    ELSE 0

\* the wait one window asks for: `oldest + window - now + buffer` when full
WindowWait(q, limit, window, t) ==
    IF Len(q) >= limit /\ Head(q) + window > t
    THEN Head(q) + window - t + RATE_LIMIT_BUFFER
    ELSE 0

\* wait_time computed under the lock, from the cleaned queues
wait_time(ps, pm, t) ==
    Max(WindowWait(ps, per_second_limit, SecondWindow, t),
        WindowWait(pm, per_2min_limit, TwoMinWindow, t))

\* as Backfill, reset only clearing the queue
Backfill_None(n, t) == <<>>

\* reset: `for _ in range(limit): append(now)` on the cleared queue
Backfill(n, t) == [i \in 1..n |-> t]

----------------------------------------------------------------------------
InitRequests ==
    /\ now = 0
    /\ shutdown_event = FALSE
    /\ per_second_requests = <<>>
    /\ per_2min_requests = <<>>
    /\ reset_time = -1
    /\ lock = 0
    /\ pc = [t \in Threads |-> "idle"]
    /\ requests = [t \in Threads |-> 0]
    /\ attempt = [t \in Threads |-> 0]
    /\ wake = [t \in Threads |-> 0]
    /\ hint = [t \in Threads |-> 0]
    /\ result = [t \in Threads |-> None]
    /\ resp_log = [t \in Threads |-> <<>>]
    /\ sleep_log = [t \in Threads |-> <<>>]
    /\ reset_count = [t \in Threads |-> 0]
    /\ release_log = <<>>
    /\ cooldown_end = 0

\* the locals of collect_matches.collect_all_for_region before it is entered
InitMatchLocals ==
    /\ group = 0
    /\ puuids = <<>>
    /\ pidx = 0
    /\ match_list = <<>>
    /\ midx = 0
    /\ new_matches = 0
    /\ total_new = 0
    /\ failed_match_ids = <<>>
    /\ cur_match = NoMatch

\* the locals of collect_players.collect_all_for_region before it is entered
InitPlayerLocals ==
    /\ unit = 1
    /\ entries = <<>>
    /\ eidx = 0
    /\ players_added = 0
    /\ total = 0

\* the locals of collect_mastery_for_region before it is entered
InitMasteryLocals ==
    /\ puuid_list = <<>>
    /\ submitted = 0
    /\ unit_state = <<>>
    /\ yielded = {}
    /\ buffer = {}
    /\ collected = 0
    /\ committed = <<>>

\* no main runs
InitNoMain ==
    /\ main_kind = "none" /\ mpc = "none" /\ ridx = 0
    /\ region_state = <<>> /\ handled = {} /\ errors = 0

InitRegionLocals ==
    /\ units_chosen = {} /\ pending = {} /\ batch = <<>>
    /\ fetched = {}
    /\ InitMatchLocals
    /\ InitPlayerLocals
    /\ InitMasteryLocals

\* no connection to the store is followed
InitNoConnection ==
    /\ conn = "none" /\ tx = "none" /\ xpc = "none"
    /\ commit_attempt = 0 /\ commit_log = <<>> /\ commit_sleeps = <<>>
    /\ raised = "none"

\* no caller of _get_limiter is followed
InitNoRegistry ==
    /\ limiters = <<>> /\ limiter_lock = 0 /\ instances = <<>>
    /\ gpc = <<>> /\ gkey = <<>> /\ missing = <<>> /\ received = <<>> /\ gets = <<>>

InitLocals == InitRegionLocals /\ InitNoMain /\ InitNoConnection /\ InitNoRegistry

\* the first run of a collector is about to start
InitRun ==
    /\ run = 1
    /\ snapshot = <<>>
    /\ db_failures = 0
    /\ units_started = 0
    /\ cpc = "start"

\* an empty store, a service nobody asks, and the locals as they are before
\* a region is collected
InitEmpty ==
    /\ players = <<>>
    /\ match_ids = {}
    /\ match_participants = {}
    /\ champion_mastery = {}
    /\ collection_progress = <<>>
    /\ remote_match = <<>>
    /\ remote_match_ids = <<>>
    /\ remote_league = <<>>
    /\ remote_mastery = <<>>
    /\ run = 0
    /\ snapshot = <<>>
    /\ db_failures = 0
    /\ units_started = 0
    /\ InitRegionLocals

\* no region is collected
InitIdle ==
    /\ InitEmpty
    /\ task = "none"
    /\ cpc = "none"
    /\ target = 0

InitNoCollector == InitIdle /\ InitNoMain /\ InitNoConnection /\ InitNoRegistry

Init == InitRequests /\ InitNoCollector

vars == <<clockVars, limVars, reqVars, collVars>>

----------------------------------------------------------------------------
(* RiotAPIClient._make_request: what one loop iteration does with a response.
   act is "return" (with result) or "continue" (after reset and/or a sleep of
   `sleep` seconds). *)

HandleResponse(r, a, h, permanent, last) ==
    CASE r = "429" ->
           [act |-> "continue", reset |-> TRUE, sleep |-> h, result |-> None]
      [] r \in permanent ->
           [act |-> "return", reset |-> FALSE, sleep |-> 0, result |-> None]
      [] r \in {"502", "503"} ->
           [act |-> "continue", reset |-> FALSE, sleep |-> Pow2(a), result |-> None]
      [] r = "200" ->
           [act |-> "return", reset |-> FALSE, sleep |-> 0, result |-> Payload]
      [] OTHER ->  \* raise_for_status, Timeout, RequestException: the except handlers
           IF a < last
           THEN [act |-> "continue", reset |-> FALSE, sleep |-> Pow2(a), result |-> None]
           ELSE [act |-> "return", reset |-> FALSE, sleep |-> 0, result |-> None]

\* as Classify, without the 400 branch: the 400 reaches raise_for_status
Classify_No400Branch(r, a, h) == HandleResponse(r, a, h, {"404"}, max_retries - 1)

\* as Classify, the except handlers testing `attempt < max_retries`
Classify_SleepAfterLast(r, a, h) == HandleResponse(r, a, h, {"400", "404"}, max_retries)

Classify(r, a, h) == HandleResponse(r, a, h, {"400", "404"}, max_retries - 1)

\* `continue`: the next iteration of the for loop, or the fall-through after it
AfterContinue(t) ==
    IF attempt[t] + 1 < max_retries
    THEN /\ pc' = [pc EXCEPT ![t] = "wait"]
         /\ result' = result
    ELSE /\ pc' = [pc EXCEPT ![t] = "done"]
         /\ result' = [result EXCEPT ![t] = None]

Release(t) == release_log' = Append(release_log, <<now, cooldown_end>>)

\* a caller enters _make_request: `for attempt in range(max_retries)` begins
BeginRequest(t, most) ==
    /\ pc[t] \in {"idle", "done"}
    /\ pc[t] = "done" => requests[t] < most
    /\ pc' = [pc EXCEPT ![t] = "wait"]
    /\ requests' = [requests EXCEPT ![t] = @ + 1]
    /\ attempt' = [attempt EXCEPT ![t] = 0]
    /\ result' = [result EXCEPT ![t] = None]
    /\ resp_log' = [resp_log EXCEPT ![t] = <<>>]
    /\ sleep_log' = [sleep_log EXCEPT ![t] = <<>>]
    /\ reset_count' = [reset_count EXCEPT ![t] = 0]
    /\ UNCHANGED <<collVars, clockVars, limVars, wake, hint, release_log, cooldown_end>>

StartRequest(t) == BeginRequest(t, MaxRequests)

\* `with self.lock:` of wait_if_needed and of reset
AcquireLock(t) ==
    /\ pc[t] \in {"wait", "reset_wait"}
    /\ lock = 0
    /\ lock' = t
    /\ pc' = [pc EXCEPT ![t] = IF pc[t] = "wait" THEN "locked" ELSE "reset_locked"]
    /\ UNCHANGED <<collVars, clockVars, per_second_requests, per_2min_requests, reset_time,
                   requests, attempt, wake, hint, result, resp_log, sleep_log, reset_count,
                   release_log, cooldown_end>>

\* as Reserve, the sleep begun inside `with self.lock`
Reserve_SleepLocked(t) ==
    /\ pc[t] = "locked"
    /\ LET ps == _clean_old_requests(per_second_requests, now, SecondWindow)
           pm == _clean_old_requests(per_2min_requests, now, TwoMinWindow)
           wt == wait_time(ps, pm, now)
           estimated_time == IF wt > 0 THEN now + wt ELSE now
       IN /\ per_second_requests' = Append(ps, estimated_time)
          /\ per_2min_requests' = Append(pm, estimated_time)
          /\ IF wt > 0
             THEN /\ pc' = [pc EXCEPT ![t] = "sleeping"]
                  /\ wake' = [wake EXCEPT ![t] = now + wt]
                  /\ lock' = t
                  /\ UNCHANGED release_log
             ELSE /\ pc' = [pc EXCEPT ![t] = "inflight"]
                  /\ Release(t)
                  /\ lock' = 0
                  /\ UNCHANGED wake
    /\ UNCHANGED <<collVars, clockVars, reset_time, requests, attempt, hint, result, resp_log,
                   sleep_log, reset_count, cooldown_end>>

\* the body of wait_if_needed under the lock, up to the release of the lock;
\* with no wait the call returns and the request is sent
Reserve(t) ==
    /\ pc[t] = "locked"
    /\ LET ps == _clean_old_requests(per_second_requests, now, SecondWindow)
           pm == _clean_old_requests(per_2min_requests, now, TwoMinWindow)
           wt == wait_time(ps, pm, now)
           estimated_time == IF wt > 0 THEN now + wt ELSE now
       IN /\ per_second_requests' = Append(ps, estimated_time)
          /\ per_2min_requests' = Append(pm, estimated_time)
          /\ IF wt > 0
             THEN /\ pc' = [pc EXCEPT ![t] = "sleeping"]
                  /\ wake' = [wake EXCEPT ![t] = now + wt]
                  /\ UNCHANGED release_log
             ELSE /\ pc' = [pc EXCEPT ![t] = "inflight"]
                  /\ Release(t)
                  /\ UNCHANGED wake
    /\ lock' = 0
    /\ UNCHANGED <<collVars, clockVars, reset_time, requests, attempt, hint, result, resp_log,
                   sleep_log, reset_count, cooldown_end>>

\* time.sleep(wait_time) of wait_if_needed ends; the call returns and the request is sent
Wake(t) ==
    /\ pc[t] = "sleeping"
    /\ now = wake[t]
    /\ pc' = [pc EXCEPT ![t] = "inflight"]
    /\ Release(t)
    /\ UNCHANGED <<collVars, clockVars, limVars, requests, attempt, wake, hint, result,
                   resp_log, sleep_log, reset_count, cooldown_end>>

\* session.get returns (or raises) and the response is classified
Respond(t, r, h) ==
    /\ pc[t] = "inflight"
    /\ resp_log' = [resp_log EXCEPT ![t] = Append(@, r)]
    /\ LET c == Classify(r, attempt[t], h)
       IN IF c.act = "return"
          THEN /\ pc' = [pc EXCEPT ![t] = "done"]
               /\ result' = [result EXCEPT ![t] = c.result]
               /\ UNCHANGED <<wake, hint, sleep_log, cooldown_end>>
          ELSE IF c.reset
          THEN /\ pc' = [pc EXCEPT ![t] = "reset_wait"]
               /\ hint' = [hint EXCEPT ![t] = c.sleep]
               /\ cooldown_end' = Max(cooldown_end, now + c.sleep * TicksPerSecond)
               /\ UNCHANGED <<wake, result, sleep_log>>
          ELSE /\ pc' = [pc EXCEPT ![t] = "backoff"]
               /\ wake' = [wake EXCEPT ![t] = now + c.sleep * TicksPerSecond]
               /\ sleep_log' = [sleep_log EXCEPT ![t] = Append(@, <<"backoff", c.sleep>>)]
               /\ UNCHANGED <<hint, result, cooldown_end>>
    /\ UNCHANGED <<collVars, clockVars, limVars, requests, attempt, reset_count, release_log>>

\* RateLimiter.reset under the lock, then time.sleep(retry_after) begins
Reset(t) ==
    /\ pc[t] = "reset_locked"
    /\ per_second_requests' = Backfill(per_second_limit, now)
    /\ per_2min_requests' = Backfill(per_2min_limit, now)
    /\ reset_time' = now
    /\ lock' = 0
    /\ reset_count' = [reset_count EXCEPT ![t] = @ + 1]
    /\ pc' = [pc EXCEPT ![t] = "sleep429"]
    /\ wake' = [wake EXCEPT ![t] = now + hint[t] * TicksPerSecond]
    /\ sleep_log' = [sleep_log EXCEPT ![t] = Append(@, <<"retry_after", hint[t]>>)]
    /\ UNCHANGED <<collVars, clockVars, requests, attempt, hint, result, resp_log, release_log,
                   cooldown_end>>

\* time.sleep of a backoff or of a retry-after ends; `continue`
EndSleep(t) ==
    /\ pc[t] \in {"backoff", "sleep429"}
    /\ now = wake[t]
    /\ attempt' = [attempt EXCEPT ![t] = @ + 1]
    /\ AfterContinue(t)
    /\ UNCHANGED <<collVars, clockVars, limVars, requests, wake, hint, resp_log, sleep_log,
                   reset_count, release_log, cooldown_end>>

----------------------------------------------------------------------------
(* The clock. A sleeping thread wakes exactly when its sleep ends: the clock
   never passes the earliest pending wake-up. *)

Sleepers == {t \in Threads : pc[t] \in {"sleeping", "backoff", "sleep429"}}

\* the clock moves by one tick, while it is before `last`
TickBefore(last) ==
    /\ now < last
    /\ \A t \in Sleepers : now + 1 <= wake[t]
    /\ now' = now + 1
    /\ UNCHANGED <<collVars, shutdown_event, limVars, reqVars>>

TickFine == TickBefore(FineTimeMax)

TickJump ==
    /\ Sleepers # {}
    /\ \E t \in Sleepers :
          /\ \A s \in Sleepers : wake[t] <= wake[s]
          /\ wake[t] > now
          /\ wake[t] <= MaxTime
          /\ now' = wake[t]
    /\ UNCHANGED <<collVars, shutdown_event, limVars, reqVars>>

\* SIGINT: _signal_handler sets the event
SignalHandler ==
    /\ ~shutdown_event
    /\ shutdown_event' = TRUE
    /\ UNCHANGED <<collVars, now, limVars, reqVars>>

AnyResponse(T, R) ==
    \E t \in T : \E r \in R : \E h \in RetryAfters :
        (r # "429" => h = DefaultRetryAfter) /\ Respond(t, r, h)

\* one request on its own, every kind of response, SIGINT at any moment
Next ==
    \/ pc[1] = "idle" /\ StartRequest(1)
    \/ AcquireLock(1)
    \/ Reserve(1)
    \/ Wake(1)
    \/ AnyResponse({1}, Responses)
    \/ Reset(1)
    \/ EndSleep(1)
    \/ TickJump
    \/ SignalHandler

Spec == Init /\ [][Next]_vars

\* NumThreads threads make requests in a row through one limiter; the service
\* answers every one of them with 200
NextWait ==
    \/ \E t \in Threads : StartRequest(t)
    \/ \E t \in Threads : AcquireLock(t)
    \/ \E t \in Threads : Reserve(t)
    \/ \E t \in Threads : Wake(t)
    \/ AnyResponse(Threads, {"200"})
    \/ TickFine
    \/ TickJump

SpecWait == Init /\ [][NextWait]_vars

\* the same threads and service, the clock moving tick by tick through the
\* whole first second
NextSecond ==
    \/ \E t \in Threads : StartRequest(t)
    \/ \E t \in Threads : AcquireLock(t)
    \/ \E t \in Threads : Reserve(t)
    \/ \E t \in Threads : Wake(t)
    \/ AnyResponse(Threads, {"200"})
    \/ TickBefore(FineSecondMax)
    \/ TickJump

SpecSecond == Init /\ [][NextSecond]_vars

\* one thread makes requests in a row through a limiter it has to itself; the
\* service answers every one of them with 200
NextAlone ==
    \/ BeginRequest(1, MaxCalls)
    \/ AcquireLock(1)
    \/ Reserve(1)
    \/ Wake(1)
    \/ AnyResponse({1}, {"200"})
    \/ TickFine
    \/ TickJump

SpecAlone == Init /\ [][NextAlone]_vars

Count429(t) == Cardinality({i \in DOMAIN resp_log[t] : resp_log[t][i] = "429"})

RECURSIVE Sum429(_)
Sum429(T) ==
    IF T = {} THEN 0
    ELSE LET t == CHOOSE x \in T : TRUE IN Count429(t) + Sum429(T \ {t})

\* NumThreads threads make one request each through one limiter; the service
\* answers 200 or, Max429 times, 429
NextShared ==
    \/ \E t \in Threads : pc[t] = "idle" /\ StartRequest(t)
    \/ \E t \in Threads : AcquireLock(t)
    \/ \E t \in Threads : Reserve(t)
    \/ \E t \in Threads : Wake(t)
    \/ AnyResponse(Threads, {"200"})
    \/ /\ Sum429(Threads) < Max429
       /\ AnyResponse(Threads, {"429"})
    \/ \E t \in Threads : Reset(t)
    \/ \E t \in Threads : EndSleep(t)
    \/ TickFine
    \/ TickJump

SpecShared == Init /\ [][NextShared]_vars

----------------------------------------------------------------------------
(* The collectors: what the service holds, the store, and one request as its
   callers see it. The limiter only delays a request and never changes its
   result, so a collector's request is the fold of Classify over the responses
   the service gives to that URL. *)

NumPlayers == 2         \* rows of table players when the match collector starts
NumMatches == 2         \* match ids the service knows
MatchTarget == 2        \* the largest --target of collect_matches
MaxDbFailures == 1      \* storage writes that fail with OperationalError

RANKED_SOLO_QUEUE_ID == 420
MINIMUM_GAME_DURATION == 300
ExpectedParticipants == 10          \* `!= 10` in validate_match

APEX_LIST == <<"MASTER", "GRANDMASTER", "CHALLENGER">>
APEX_TIERS == {APEX_LIST[i] : i \in DOMAIN APEX_LIST}
TIER_GROUPS == <<APEX_TIERS, {"DIAMOND"}, {"EMERALD"}>>
TIER_ALLOCATION == <<30, 45, 25>>   \* in percent: 0.30, 0.45, 0.25

Puuids == 1..NumPlayers
MatchIds == 1..NumMatches

Min(a, b) == IF a <= b THEN a ELSE b

Range(s) == {s[i] : i \in DOMAIN s}

\* _make_request from its first attempt: the result it returns for the
\* responses `stream`, or None when the for loop runs out
RECURSIVE RunFrom(_, _)
RunFrom(stream, a) ==
    IF a >= max_retries \/ a >= Len(stream) THEN None
    ELSE LET c == Classify(stream[a + 1], a, DefaultRetryAfter)
         IN  IF c.act = "return" THEN c.result ELSE RunFrom(stream, a + 1)

RunRequest(stream) == RunFrom(stream, 0)

\* payloads of the match endpoint: has_info is `'info' in match_data`,
\* participants is len(info['participants'])
MatchPayload(i, q, n, d) ==
    [is_none |-> FALSE, has_info |-> i, queueId |-> q, participants |-> n,
     gameDuration |-> d]

GoodMatch == MatchPayload(TRUE, RANKED_SOLO_QUEUE_ID, ExpectedParticipants,
                          MINIMUM_GAME_DURATION + 1)

MatchPayloads ==
    { GoodMatch,
      MatchPayload(FALSE, 0, 0, 0),
      MatchPayload(TRUE, 440, ExpectedParticipants, MINIMUM_GAME_DURATION + 1),
      MatchPayload(TRUE, RANKED_SOLO_QUEUE_ID, ExpectedParticipants - 1,
                   MINIMUM_GAME_DURATION + 1),
      MatchPayload(TRUE, RANKED_SOLO_QUEUE_ID, ExpectedParticipants,
                   MINIMUM_GAME_DURATION) }

\* what the service does with a match URL: its responses in order and the
\* body of a 200
MatchBehaviours ==
    {[stream |-> <<"200">>, data |-> d] : d \in MatchPayloads}
    \cup {[stream |-> s, data |-> GoodMatch] :
             s \in {<<"502", "200">>, <<"502", "503", "502">>}}

\* RiotAPIClient.get_match
get_match(m) ==
    IF RunRequest(remote_match[m].stream) = Payload THEN remote_match[m].data
    ELSE NoMatch

\* RiotAPIClient.get_match leaves by raising TransientAPIError
get_match_raises(m) == RunRequest(remote_match[m].stream) = TransientAPIError

\* RiotAPIClient.get_match_ids_by_puuid: `result if result else []`
get_match_ids_by_puuid(p) ==
    IF RunRequest(remote_match_ids[p].stream) = Payload THEN remote_match_ids[p].ids
    ELSE <<>>

\* as validate_match, the duration test written `<`
validate_match_DurationLt(match_data) ==
    /\ ~match_data.is_none
    /\ match_data.has_info
    /\ ~(match_data.queueId # RANKED_SOLO_QUEUE_ID)
    /\ ~(match_data.participants # ExpectedParticipants)
    /\ ~(match_data.gameDuration < MINIMUM_GAME_DURATION)

validate_match(match_data) ==
    /\ ~match_data.is_none
    /\ match_data.has_info
    /\ ~(match_data.queueId # RANKED_SOLO_QUEUE_ID)
    /\ ~(match_data.participants # ExpectedParticipants)
    /\ ~(match_data.gameDuration <= MINIMUM_GAME_DURATION)

\* the rows process_match builds from info['participants']
ParticipantRows(m, match_data) ==
    {[match_id |-> m, puuid |-> i, champion_id |-> 1] : i \in 1..match_data.participants}

\* as count_matches, counting the matches this run has added
count_matches_ThisRun == total_new

\* Database.count_matches
count_matches == Cardinality(match_ids)

\* Database.match_exists
match_exists(m) == m \in match_ids

\* Database.get_player_puuids_by_tiers
get_player_puuids_by_tiers(tiers) ==
    LET rows == SelectSeq(players, LAMBDA row : row.tier \in tiers)
    IN  [i \in DOMAIN rows |-> rows[i].puuid]

\* the cumulative group targets collect_all_for_region computes first
RECURSIVE Cumulative(_, _)
Cumulative(tg, g) ==
    IF g = 0 THEN 0
    ELSE Cumulative(tg, g - 1) + Max(1, (tg * TIER_ALLOCATION[g]) \div 100)

group_targets(tg, g) == Min(Cumulative(tg, g), tg)

\* the row counts of the four tables
RowCounts ==
    <<Len(players), Cardinality(match_ids), Cardinality(match_participants),
      Cardinality(champion_mastery)>>

----------------------------------------------------------------------------
(* collect_matches.py *)

reqSide_base == <<clockVars, limVars, reqVars>>

\* what no step of a collector changes
reqSide == <<reqSide_base, writeVars, sideVars>>

InitialTier(p) == <<"MASTER", "DIAMOND", "EMERALD">>[((p - 1) % 3) + 1]

\* the order in which the service lists the matches of player p
MatchIdsOf(p) ==
    IF p = 1 THEN [i \in 1..(NumMatches - 1) |-> i]
    ELSE [i \in 1..NumMatches |-> NumMatches + 1 - i]

\* collect_matches starts on a store that holds players and no match
InitMatches ==
    /\ task = "matches"
    /\ players = [p \in Puuids |-> [puuid |-> p, tier |-> InitialTier(p), rank |-> "I"]]
    /\ match_ids = {}
    /\ match_participants = {}
    /\ champion_mastery = {}
    /\ collection_progress = <<>>
    /\ remote_match \in [MatchIds -> MatchBehaviours]
    /\ \E failing \in {0, 1} :
          remote_match_ids =
              [p \in Puuids |->
                  [stream |-> IF p = failing THEN <<"503", "503", "503">>
                              ELSE <<"200">>,
                   ids |-> MatchIdsOf(p)]]
    /\ target \in 1..MatchTarget

\* collect_all_for_region up to its first loop
M_Enter ==
    /\ task = "matches" /\ cpc = "start"
    /\ total_new' = 0
    /\ failed_match_ids' = <<>>
    /\ group' = 1
    /\ cpc' = "group_head"
    /\ UNCHANGED <<target, puuids, pidx, match_list, midx, new_matches, cur_match, fetched>>
    /\ UNCHANGED <<reqSide, playerVars, masteryVars, storeVars, remoteVars, runVars>>

\* `for group_name, tiers in TIER_GROUPS`: the break test and the player query
M_GroupHead ==
    /\ task = "matches" /\ cpc = "group_head"
    /\ IF group > Len(TIER_GROUPS) \/ shutdown_event \/ count_matches >= target
       THEN /\ cpc' = "retry_check"
            /\ UNCHANGED <<puuids, pidx>>
       ELSE /\ puuids' = get_player_puuids_by_tiers(TIER_GROUPS[group])
            /\ pidx' = 1
            /\ cpc' = "player_head"
    /\ UNCHANGED <<target, group, match_list, midx, new_matches, total_new,
                   failed_match_ids, cur_match, fetched>>
    /\ UNCHANGED <<reqSide, playerVars, masteryVars, storeVars, remoteVars, runVars>>

\* `for puuid in puuids`: the two break tests, then collect_matches_for_player
\* up to its loop (the request for the player's match ids)
M_PlayerHead ==
    /\ task = "matches" /\ cpc = "player_head"
    /\ IF \/ pidx > Len(puuids)
          \/ shutdown_event
          \/ count_matches >= group_targets(target, group)
       THEN /\ group' = group + 1
            /\ cpc' = "group_head"
            /\ UNCHANGED <<pidx, match_list, midx, new_matches, units_started>>
       ELSE LET ids == get_match_ids_by_puuid(puuids[pidx])
            IN  /\ units_started' = units_started + 1
                /\ group' = group
                /\ IF ids = <<>>
                   THEN /\ pidx' = pidx + 1          \* return 0
                        /\ cpc' = cpc
                        /\ UNCHANGED <<match_list, midx, new_matches>>
                   ELSE /\ match_list' = ids
                        /\ midx' = 1
                        /\ new_matches' = 0
                        /\ cpc' = "match_head"
                        /\ pidx' = pidx
    /\ UNCHANGED <<target, puuids, total_new, failed_match_ids, cur_match, fetched>>
    /\ UNCHANGED <<reqSide, playerVars, masteryVars, storeVars, remoteVars, task, run, snapshot, db_failures>>

\* `for match_id in match_ids`: the shutdown test, match_exists, and
\* process_match sending its request
M_MatchHead ==
    /\ task = "matches" /\ cpc = "match_head"
    /\ IF midx > Len(match_list) \/ shutdown_event
       THEN /\ total_new' = total_new + new_matches   \* return new_matches
            /\ pidx' = pidx + 1
            /\ cpc' = "player_head"
            /\ UNCHANGED <<midx, fetched, units_started>>
       ELSE IF match_exists(match_list[midx])
       THEN /\ midx' = midx + 1                       \* continue
            /\ UNCHANGED <<total_new, pidx, cpc, fetched, units_started>>
       ELSE /\ cpc' = "fetching"
            /\ fetched' = fetched \cup {match_list[midx]}
            /\ units_started' = units_started + 1
            /\ UNCHANGED <<total_new, pidx, midx>>
    /\ UNCHANGED <<target, group, puuids, match_list, new_matches, failed_match_ids,
                   cur_match>>
    /\ UNCHANGED <<reqSide, playerVars, masteryVars, storeVars, remoteVars, task, run, snapshot, db_failures>>

\* process_match gets the answer: validate_match; the caller's except clause
M_Fetched ==
    /\ task = "matches" /\ cpc = "fetching"
    /\ LET m == match_list[midx]
           match_data == get_match(m)
       IN  IF get_match_raises(m)
           THEN /\ failed_match_ids' =
                       IF m \in Range(failed_match_ids) THEN failed_match_ids
                       ELSE Append(failed_match_ids, m)
                /\ midx' = midx + 1
                /\ cpc' = "match_head"
                /\ UNCHANGED cur_match
           ELSE IF ~validate_match(match_data)
           THEN /\ midx' = midx + 1                   \* return False
                /\ cpc' = "match_head"
                /\ UNCHANGED <<failed_match_ids, cur_match>>
           ELSE /\ cur_match' = match_data
                /\ cpc' = "write_id"
                /\ UNCHANGED <<failed_match_ids, midx>>
    /\ UNCHANGED <<target, group, puuids, pidx, match_list, new_matches, total_new,
                   fetched>>
    /\ UNCHANGED <<reqSide, playerVars, masteryVars, storeVars, remoteVars, runVars>>

\* db.insert_match_id: INSERT OR IGNORE
M_WriteMatchId ==
    /\ task = "matches" /\ cpc = "write_id"
    /\ match_ids' = match_ids \cup {match_list[midx]}
    /\ cpc' = "write_participants"
    /\ UNCHANGED <<players, match_participants, champion_mastery, collection_progress>>
    /\ UNCHANGED <<reqSide, playerVars, masteryVars, remoteVars, runVars, matchVars>>

\* a storage write of process_match raises sqlite3.OperationalError: return False
M_WriteFails ==
    /\ task = "matches" /\ cpc \in {"write_id", "write_participants"}
    /\ db_failures < MaxDbFailures
    /\ db_failures' = db_failures + 1
    /\ midx' = midx + 1
    /\ cur_match' = NoMatch
    /\ cpc' = "match_head"
    /\ UNCHANGED <<target, group, puuids, pidx, match_list, new_matches, total_new,
                   failed_match_ids, fetched>>
    /\ UNCHANGED <<reqSide, playerVars, masteryVars, storeVars, remoteVars, task, run, snapshot, units_started>>

\* db.insert_match_participants_batch, return True, `new_matches += 1`
M_WriteParticipants ==
    /\ task = "matches" /\ cpc = "write_participants"
    /\ match_participants' =
           match_participants \cup ParticipantRows(match_list[midx], cur_match)
    /\ new_matches' = new_matches + 1
    /\ midx' = midx + 1
    /\ cur_match' = NoMatch
    /\ cpc' = "match_head"
    /\ UNCHANGED <<target, group, puuids, pidx, match_list, total_new,
                   failed_match_ids, fetched>>
    /\ UNCHANGED <<players, match_ids, champion_mastery, collection_progress>>
    /\ UNCHANGED <<reqSide, playerVars, masteryVars, remoteVars, runVars>>

\* after the loops: `if failed_match_ids and not _shutdown`, else return
M_RetryCheck ==
    /\ task = "matches" /\ cpc = "retry_check"
    /\ cpc' = IF failed_match_ids # <<>> /\ ~shutdown_event THEN "cooldown" ELSE "done"
    /\ UNCHANGED <<reqSide, playerVars, masteryVars, storeVars, remoteVars, runVars, matchVars>>

\* the same collection is started again on the store the first run left
Rerun ==
    /\ cpc = "done" /\ run = 1 /\ ~shutdown_event
    /\ run' = 2
    /\ snapshot' = [counts |-> RowCounts, db_failures |-> db_failures,
                    units_started |-> units_started]
    /\ cpc' = "start"
    /\ group' = 0 /\ puuids' = <<>> /\ pidx' = 0 /\ match_list' = <<>> /\ midx' = 0
    /\ new_matches' = 0 /\ total_new' = 0 /\ failed_match_ids' = <<>>
    /\ unit' = 1 /\ total' = 0
    /\ UNCHANGED <<target, cur_match, fetched, entries, eidx, players_added>>
    /\ UNCHANGED <<reqSide, masteryVars, storeVars, remoteVars, task, db_failures,
                   units_started>>

----------------------------------------------------------------------------
(* collect_players.py *)

PageLimit == 200                    \* `if page > 200`

TIERS == <<"EMERALD", "DIAMOND">>
DIVISIONS == <<"I", "II", "III", "IV">>

\* the (tier, division) pairs in the order collect_all_for_region visits them
PlayerUnits ==
    [k \in 1..(Len(TIERS) * Len(DIVISIONS)) |->
        [tier |-> TIERS[((k - 1) \div Len(DIVISIONS)) + 1],
         division |-> DIVISIONS[((k - 1) % Len(DIVISIONS)) + 1]]]
    \o [k \in 1..Len(APEX_LIST) |-> [tier |-> APEX_LIST[k], division |-> ""]]

NumUnits == Len(PlayerUnits)

\* one request of the league endpoint for unit k, page `page`
LeaguePage(k, page) ==
    IF RunRequest(remote_league[k].stream) = Payload /\ page <= Len(remote_league[k].pages)
    THEN remote_league[k].pages[page]
    ELSE <<>>

\* _fetch_tier_division: pages until an empty one
RECURSIVE FetchFrom(_, _)
FetchFrom(k, page) ==
    LET data == LeaguePage(k, page)
    IN  IF data = <<>> THEN <<>>
        ELSE IF page + 1 > PageLimit THEN data
        ELSE data \o FetchFrom(k, page + 1)

_fetch_tier_division(k) == FetchFrom(k, 1)

\* _fetch_apex_tier: one response, its 'entries'
_fetch_apex_tier(k) == LeaguePage(k, 1)

\* as get_player_by_puuid, never finding the row
get_player_by_puuid_Never(puuid) == FALSE

\* Database.get_player_by_puuid
get_player_by_puuid(puuid) == \E i \in DOMAIN players : players[i].puuid = puuid

\* Database.insert_player: INSERT OR REPLACE on puuid
insert_player(puuid, tier, rank) ==
    Append(SelectSeq(players, LAMBDA row : row.puuid # puuid),
           [puuid |-> puuid, tier |-> tier, rank |-> rank])

\* as progress_completed, skipping the units marked failed instead
progress_completed_Failed(k) == collection_progress[k] = "failed"

\* as progress_completed, never finding the checkpoint completed
progress_completed_Never(k) == FALSE

\* collect_tier_division: `progress and progress['status'] == 'completed'`
progress_completed(k) == collection_progress[k] = "completed"

\* what the service holds for the league endpoints: every unit has one page
\* with one player of its own; one unit may differ
LeagueData(bad, kind) ==
    [k \in 1..NumUnits |->
        [stream |-> IF k = bad /\ kind = "fail" THEN <<"503", "502", "503">>
                    ELSE <<"200">>,
         pages |-> IF k = bad /\ kind = "nopuuid" THEN << <<0, k>> >>
                   ELSE IF k = bad /\ kind = "twice" THEN << <<k>>, <<1, NumUnits + 1>> >>
                   ELSE << <<k>> >>]]

\* collect_players starts on an empty store
InitPlayers ==
    /\ task = "players"
    /\ players = <<>>
    /\ match_ids = {}
    /\ match_participants = {}
    /\ champion_mastery = {}
    /\ collection_progress = [k \in 1..NumUnits |-> "none"]
    /\ \E bad \in 0..NumUnits : \E kind \in {"fail", "nopuuid", "twice"} :
          /\ bad = 0 => kind = "fail"
          /\ remote_league = LeagueData(bad, kind)

\* collect_all_for_region: the shutdown test of the loops, then
\* collect_tier_division up to the request it sends
P_UnitHead ==
    /\ task = "players" /\ cpc = "start"
    /\ IF unit > NumUnits \/ shutdown_event
       THEN /\ cpc' = "done"                                  \* return total
            /\ UNCHANGED <<unit, collection_progress, units_started>>
       ELSE IF progress_completed(unit)
       THEN /\ unit' = unit + 1                               \* return 0
            /\ UNCHANGED <<cpc, collection_progress, units_started>>
       ELSE /\ collection_progress' = [collection_progress EXCEPT ![unit] = "in_progress"]
            /\ units_started' = units_started + 1
            /\ cpc' = "fetching"
            /\ unit' = unit
    /\ UNCHANGED <<entries, eidx, players_added, total>>
    /\ UNCHANGED <<players, match_ids, match_participants, champion_mastery>>
    /\ UNCHANGED <<reqSide, remoteVars, task, run, snapshot, db_failures, matchVars,
                   masteryVars>>

\* the entries arrive
P_Fetched ==
    /\ task = "players" /\ cpc = "fetching"
    /\ entries' = IF PlayerUnits[unit].tier \in APEX_TIERS THEN _fetch_apex_tier(unit)
                  ELSE _fetch_tier_division(unit)
    /\ eidx' = 1
    /\ players_added' = 0
    /\ cpc' = "entry_head"
    /\ UNCHANGED <<unit, total>>
    /\ UNCHANGED <<reqSide, storeVars, remoteVars, runVars, matchVars, masteryVars>>

\* this entry is one collect_tier_division inserts
NeedsInsert ==
    /\ eidx <= Len(entries) /\ ~shutdown_event
    /\ entries[eidx] # 0
    /\ ~get_player_by_puuid(entries[eidx])

\* `for entry in pbar`: one entry, or the end of collect_tier_division
P_Entry ==
    /\ task = "players" /\ cpc = "entry_head"
    /\ IF eidx > Len(entries) \/ shutdown_event
       THEN /\ collection_progress' =
                   IF ~shutdown_event
                   THEN [collection_progress EXCEPT ![unit] = "completed"]
                   ELSE collection_progress
            /\ total' = total + players_added                 \* return players_added
            /\ unit' = unit + 1
            /\ cpc' = "start"
            /\ UNCHANGED <<players, eidx, players_added>>
       ELSE /\ IF NeedsInsert
               THEN /\ players' = insert_player(entries[eidx], PlayerUnits[unit].tier,
                                                 PlayerUnits[unit].division)
                    /\ players_added' = players_added + 1
               ELSE UNCHANGED <<players, players_added>>      \* continue
            /\ eidx' = eidx + 1
            /\ UNCHANGED <<collection_progress, total, unit, cpc>>
    /\ UNCHANGED <<entries, match_ids, match_participants, champion_mastery>>
    /\ UNCHANGED <<reqSide, remoteVars, runVars, matchVars, masteryVars>>

\* as P_WriteFails, the except clause leaving the checkpoint as it is
P_WriteFails_NoMark ==
    /\ task = "players" /\ cpc = "entry_head"
    /\ NeedsInsert
    /\ db_failures < MaxDbFailures
    /\ db_failures' = db_failures + 1
    /\ cpc' = "crashed"
    /\ UNCHANGED <<players, match_ids, match_participants, champion_mastery,
                   collection_progress>>
    /\ UNCHANGED <<reqSide, remoteVars, task, run, snapshot, units_started, matchVars,
                   playerVars, masteryVars>>

\* insert_player raises: `except Exception` marks the unit failed and re-raises
P_WriteFails ==
    /\ task = "players" /\ cpc = "entry_head"
    /\ NeedsInsert
    /\ db_failures < MaxDbFailures
    /\ db_failures' = db_failures + 1
    /\ collection_progress' = [collection_progress EXCEPT ![unit] = "failed"]
    /\ cpc' = "crashed"
    /\ UNCHANGED <<players, match_ids, match_participants, champion_mastery>>
    /\ UNCHANGED <<reqSide, remoteVars, task, run, snapshot, units_started, matchVars,
                   playerVars, masteryVars>>

----------------------------------------------------------------------------
(* collect_mastery.py *)

NumMasteryPuuids == 6   \* players whose mastery is pending when collect_mastery starts

BATCH_SIZE == 500
WORKER_COUNT == 5

MasteryPuuids == 1..NumMasteryPuuids

\* Database.get_pending_mastery_puuids: the (puuid, champion) pairs of stored
\* participants of stored matches that have no champion_mastery row
PendingPairs ==
    {<<mp.puuid, mp.champion_id>> :
        mp \in {row \in match_participants : row.match_id \in match_ids}}
    \ {<<cm.puuid, cm.champion_id>> : cm \in champion_mastery}

\* the elements of a set of numbers as a sequence, ascending
RECURSIVE SortedSeq(_)
SortedSeq(S) ==
    IF S = {} THEN <<>>
    ELSE LET x == CHOOSE y \in S : \A z \in S : y <= z
         IN  <<x>> \o SortedSeq(S \ {x})

\* list(puuid_map.items())
get_pending_mastery_puuids ==
    LET ps == SortedSeq({pair[1] : pair \in PendingPairs})
    IN  [i \in DOMAIN ps |->
            [puuid |-> ps[i],
             champs |-> {pair[2] : pair \in {q \in PendingPairs : q[1] = ps[i]}}]]

\* as _fetch_mastery_for_puuid, a failed request giving no records
_fetch_mastery_for_puuid_SkipFailed(puuid, needed_champs) ==
    LET ok == RunRequest(remote_mastery[puuid].stream) = Payload
    IN  IF ~ok THEN {}
        ELSE {[puuid |-> puuid, champion_id |-> c,
               mastery_points |-> IF c \in remote_mastery[puuid].champs THEN 7 ELSE 0,
               mastery_level |-> IF c \in remote_mastery[puuid].champs THEN 5 ELSE 0] :
                 c \in needed_champs}

\* _fetch_mastery_for_puuid: one record for every needed champion, with 0
\* points and no level (0 stands for None; the service's levels begin at 1)
\* where the service gave no entry or the request failed; the service gives
\* 7 points and level 5
_fetch_mastery_for_puuid(puuid, needed_champs) ==
    LET ok == RunRequest(remote_mastery[puuid].stream) = Payload
    IN  {[puuid |-> puuid, champion_id |-> c,
          mastery_points |-> IF ok /\ c \in remote_mastery[puuid].champs THEN 7 ELSE 0,
          mastery_level |-> IF ok /\ c \in remote_mastery[puuid].champs THEN 5 ELSE 0] :
            c \in needed_champs}

\* Database.insert_mastery_batch: INSERT OR REPLACE on (puuid, champion_id)
insert_mastery_batch(records) ==
    {cm \in champion_mastery :
        ~\E r \in records : r.puuid = cm.puuid /\ r.champion_id = cm.champion_id}
    \cup records

Running == {i \in DOMAIN unit_state : unit_state[i] = "running"}
Queued == {i \in DOMAIN unit_state : unit_state[i] = "queued"}
Finished == {i \in DOMAIN unit_state : unit_state[i] = "finished"}

\* collect_mastery starts on a store with one match, its participants, and a
\* mastery row for one of the pairs
InitMastery ==
    /\ task = "mastery"
    /\ players = <<>>
    /\ match_ids = {1}
    /\ match_participants =
           {[match_id |-> 1, puuid |-> p, champion_id |-> 1] : p \in MasteryPuuids}
           \cup {[match_id |-> 1, puuid |-> 1, champion_id |-> 2]}
    /\ champion_mastery = {[puuid |-> 1, champion_id |-> 2, mastery_points |-> 7,
                             mastery_level |-> 5]}
    /\ collection_progress = <<>>
    /\ \E failing \in 0..NumMasteryPuuids :
          remote_mastery =
              [p \in MasteryPuuids |->
                  [stream |-> IF p = failing THEN <<"503", "503", "503">> ELSE <<"200">>,
                   champs |-> IF p % 2 = 1 THEN {1, 2} ELSE {}]]

\* collect_mastery_for_region up to the pool
Y_Enter ==
    /\ task = "mastery" /\ cpc = "start"
    /\ LET puuid_map == get_pending_mastery_puuids
       IN  IF Len(puuid_map) = 0
           THEN /\ cpc' = "done"                              \* return 0
                /\ UNCHANGED <<puuid_list, unit_state>>
           ELSE /\ puuid_list' = puuid_map
                /\ unit_state' = [i \in DOMAIN puuid_map |-> "new"]
                /\ cpc' = "submit"
    /\ submitted' = 0
    /\ yielded' = {}
    /\ buffer' = {}
    /\ collected' = 0
    /\ committed' = <<>>
    /\ UNCHANGED <<reqSide, storeVars, remoteVars, runVars, matchVars, playerVars>>

\* `for puuid, champs in puuid_list`: the shutdown test and pool.submit
Y_Submit ==
    /\ task = "mastery" /\ cpc = "submit"
    /\ IF submitted = Len(puuid_list) \/ shutdown_event
       THEN /\ cpc' = "as_completed"
            /\ UNCHANGED <<submitted, unit_state>>
       ELSE /\ submitted' = submitted + 1
            /\ unit_state' = [unit_state EXCEPT ![submitted + 1] = "queued"]
            /\ cpc' = cpc
    /\ UNCHANGED <<puuid_list, yielded, buffer, collected, committed>>
    /\ UNCHANGED <<reqSide, storeVars, remoteVars, runVars, matchVars, playerVars>>

\* a worker thread of the pool takes the oldest queued call and sends its request
W_Start(i) ==
    /\ task = "mastery"
    /\ i \in Queued /\ \A j \in Queued : i <= j
    /\ Cardinality(Running) < WORKER_COUNT
    /\ unit_state' = [unit_state EXCEPT ![i] = "running"]
    /\ units_started' = units_started + 1
    /\ UNCHANGED <<puuid_list, submitted, yielded, buffer, collected, committed, cpc>>
    /\ UNCHANGED <<reqSide, storeVars, remoteVars, task, run, snapshot, db_failures,
                   matchVars, playerVars>>

\* _fetch_mastery_for_puuid returns in its worker
W_Finish(i) ==
    /\ task = "mastery"
    /\ i \in Running
    /\ unit_state' = [unit_state EXCEPT ![i] = "finished"]
    /\ UNCHANGED <<puuid_list, submitted, yielded, buffer, collected, committed, cpc>>
    /\ UNCHANGED <<reqSide, storeVars, remoteVars, runVars, matchVars, playerVars>>

\* `for future in as_completed(futures)`: one finished future, or the end
Y_Completed ==
    /\ task = "mastery" /\ cpc = "as_completed"
    /\ \/ /\ yielded = 1..submitted
          /\ cpc' = "pool_exit"
          /\ UNCHANGED <<yielded, buffer, collected, committed, champion_mastery>>
       \/ \E i \in Finished \ yielded :
             IF shutdown_event
             THEN /\ cpc' = "pool_exit"                       \* break
                  /\ UNCHANGED <<yielded, buffer, collected, committed, champion_mastery>>
             ELSE LET records == _fetch_mastery_for_puuid(puuid_list[i].puuid,
                                                          puuid_list[i].champs)
                      extended == buffer \cup records
                  IN  /\ yielded' = yielded \cup {i}
                      /\ collected' = collected + Cardinality(records)
                      /\ IF Cardinality(extended) >= BATCH_SIZE
                         THEN /\ champion_mastery' = insert_mastery_batch(extended)
                              /\ committed' = Append(committed, extended)
                              /\ buffer' = {}
                         ELSE /\ buffer' = extended
                              /\ UNCHANGED <<champion_mastery, committed>>
                      /\ cpc' = cpc
    /\ UNCHANGED <<puuid_list, submitted, unit_state>>
    /\ UNCHANGED <<players, match_ids, match_participants, collection_progress>>
    /\ UNCHANGED <<reqSide, remoteVars, runVars, matchVars, playerVars>>

\* the end of the `with` block: the pool waits for every submitted call
Y_PoolExit ==
    /\ task = "mastery" /\ cpc = "pool_exit"
    /\ Finished = 1..submitted
    /\ cpc' = "flush"
    /\ UNCHANGED <<reqSide, storeVars, remoteVars, runVars, matchVars, playerVars>>
    /\ UNCHANGED <<puuid_list, submitted, unit_state, yielded, buffer, collected, committed>>

\* one finished future is taken and the buffer, full, is flushed, but
\* insert_mastery_batch raises: `buffer = []` is not reached, the
\* `except Exception` of the loop goes on with the next future
Y_CompletedFlushFails ==
    /\ task = "mastery" /\ cpc = "as_completed"
    /\ ~shutdown_event
    /\ db_failures < MaxDbFailures
    /\ \E i \in Finished \ yielded :
          LET records == _fetch_mastery_for_puuid(puuid_list[i].puuid, puuid_list[i].champs)
              extended == buffer \cup records
          IN  /\ Cardinality(extended) >= BATCH_SIZE
              /\ yielded' = yielded \cup {i}
              /\ collected' = collected + Cardinality(records)
              /\ buffer' = extended
    /\ db_failures' = db_failures + 1
    /\ UNCHANGED <<puuid_list, submitted, unit_state, committed, cpc>>
    /\ UNCHANGED <<reqSide, storeVars, remoteVars, task, run, snapshot, units_started,
                   matchVars, playerVars>>

\* as Y_Flush, returning without the flush that follows the pool
Y_Flush_Left ==
    /\ task = "mastery" /\ cpc = "flush"
    /\ cpc' = "done"
    /\ UNCHANGED <<puuid_list, submitted, unit_state, yielded, collected, buffer, committed>>
    /\ UNCHANGED storeVars
    /\ UNCHANGED <<reqSide, remoteVars, runVars, matchVars, playerVars>>

\* the last _flush_buffer, and the return
Y_Flush ==
    /\ task = "mastery" /\ cpc = "flush"
    /\ champion_mastery' = IF buffer # {} THEN insert_mastery_batch(buffer)
                           ELSE champion_mastery
    /\ committed' = IF buffer # {} THEN Append(committed, buffer) ELSE committed
    /\ buffer' = {}
    /\ cpc' = "done"
    /\ UNCHANGED <<puuid_list, submitted, unit_state, yielded, collected>>
    /\ UNCHANGED <<players, match_ids, match_participants, collection_progress>>
    /\ UNCHANGED <<reqSide, remoteVars, runVars, matchVars, playerVars>>

\* insert_mastery_batch raises in the last flush: the collector ends with it
Y_FlushFails ==
    /\ task = "mastery" /\ cpc = "flush"
    /\ buffer # {}
    /\ db_failures < MaxDbFailures
    /\ db_failures' = db_failures + 1
    /\ cpc' = "crashed"
    /\ UNCHANGED <<reqSide, storeVars, remoteVars, task, run, snapshot, units_started,
                   matchVars, playerVars, masteryVars>>

----------------------------------------------------------------------------
(* One collector, run once and then once more *)

InitCollect ==
    /\ InitRequests
    /\ InitRun
    /\ InitLocals
    /\ \/ /\ InitMatches
          /\ remote_league = <<>> /\ remote_mastery = <<>>
       \/ /\ InitPlayers
          /\ remote_match = <<>> /\ remote_match_ids = <<>> /\ remote_mastery = <<>>
          /\ target = 0
       \/ /\ InitMastery
          /\ remote_match = <<>> /\ remote_match_ids = <<>> /\ remote_league = <<>>
          /\ target = 0

NextCollect ==
    \/ M_Enter
    \/ M_GroupHead
    \/ M_PlayerHead
    \/ M_MatchHead
    \/ M_Fetched
    \/ M_WriteMatchId
    \/ M_WriteFails
    \/ M_WriteParticipants
    \/ M_RetryCheck
    \/ P_UnitHead
    \/ P_Fetched
    \/ P_Entry
    \/ P_WriteFails
    \/ Y_Enter
    \/ Y_Submit
    \/ \E i \in MasteryPuuids : W_Start(i)
    \/ \E i \in MasteryPuuids : W_Finish(i)
    \/ Y_Completed
    \/ Y_PoolExit
    \/ Y_Flush
    \/ Y_FlushFails
    \/ Rerun
    \/ SignalHandler

SpecCollect == InitCollect /\ [][NextCollect]_vars

----------------------------------------------------------------------------
(* The player collector stopped and started again *)

\* the tier/division pairs --reset is given when the collector is restarted
\* (0: no --reset): the first pair with divisions and the first apex tier
ResetChoices == {0, 1, Len(TIERS) * Len(DIVISIONS) + 1}

\* Database.delete_players_by_tier
delete_players_by_tier(tier, rank) ==
    SelectSeq(players, LAMBDA row : ~(row.tier = tier /\ (rank # "" => row.rank = rank)))

\* the process is killed inside a tier/division
P_Crash ==
    /\ task = "players" /\ cpc \in {"fetching", "entry_head"}
    /\ run = 1
    /\ cpc' = "crashed"
    /\ UNCHANGED <<reqSide, storeVars, remoteVars, task, run, snapshot, db_failures,
                   units_started, matchVars, playerVars, masteryVars>>

\* main of collect_players in a new process: the --reset handling, then the
\* collection from its first tier/division; the shutdown flag is clear again
P_Restart(reset) ==
    /\ task = "players" /\ run = 1 /\ cpc \in {"done", "crashed"}
    /\ run' = 2
    /\ shutdown_event' = FALSE
    /\ snapshot' = [counts |-> RowCounts, db_failures |-> db_failures,
                    units_started |-> units_started, players |-> players,
                    reset |-> reset,
                    interrupted |-> (cpc = "crashed" \/ shutdown_event)]
    /\ IF reset = 0
       THEN UNCHANGED <<players, collection_progress>>
       ELSE /\ players' = delete_players_by_tier(PlayerUnits[reset].tier,
                                                 PlayerUnits[reset].division)
            /\ collection_progress' = [collection_progress EXCEPT ![reset] = "none"]
    /\ cpc' = "start"
    /\ unit' = 1 /\ total' = 0 /\ entries' = <<>> /\ eidx' = 0 /\ players_added' = 0
    /\ UNCHANGED <<match_ids, match_participants, champion_mastery>>
    /\ UNCHANGED <<now, limVars, reqVars, writeVars, sideVars, remoteVars, task, db_failures,
                   units_started, matchVars, masteryVars>>

\* the entries collect_tier_division gets for unit k
EntriesOf(k) ==
    IF PlayerUnits[k].tier \in APEX_TIERS THEN _fetch_apex_tier(k)
    ELSE _fetch_tier_division(k)

\* the loop over the entries of unit k from entry i on, started on `table`,
\* never stopped: an entry with a puuid no row has yet gets a new last row
RECURSIVE InsertEntries(_, _, _)
InsertEntries(table, k, i) ==
    IF i > Len(EntriesOf(k)) THEN table
    ELSE LET puuid == EntriesOf(k)[i]
         IN  IF puuid = 0 \/ \E j \in DOMAIN table : table[j].puuid = puuid
             THEN InsertEntries(table, k, i + 1)
             ELSE InsertEntries(Append(table, [puuid |-> puuid,
                                               tier |-> PlayerUnits[k].tier,
                                               rank |-> PlayerUnits[k].division]),
                                k, i + 1)

\* collect_all_for_region from unit k on, started on `table`, never stopped
RECURSIVE UninterruptedRun(_, _)
UninterruptedRun(table, k) ==
    IF k > NumUnits THEN table
    ELSE UninterruptedRun(InsertEntries(table, k, 1), k + 1)

InitResume ==
    /\ InitRequests
    /\ InitRun
    /\ InitLocals
    /\ InitPlayers
    /\ remote_match = <<>> /\ remote_match_ids = <<>> /\ remote_mastery = <<>>
    /\ target = 0

NextResume ==
    \/ P_UnitHead
    \/ P_Fetched
    \/ P_Entry
    \/ P_WriteFails
    \/ P_Crash
    \/ \E reset \in ResetChoices : P_Restart(reset)
    \/ SignalHandler

SpecResume == InitResume /\ [][NextResume]_vars

----------------------------------------------------------------------------
(* The writes of work units that finish in any order: the match writes of
   region threads, the records of mastery calls as as_completed hands them
   over, and player rows *)

NumWriteUnits == 2      \* units of each kind whose writes are interleaved

WriteKeys == 2..(NumWriteUnits + 1)

WriteUnits ==
    {[kind |-> k, key |-> i] : k \in {"player", "match", "mastery"}, i \in WriteKeys}

\* the rows a unit writes
PlayerRow(u) == [puuid |-> u.key, tier |-> "DIAMOND", rank |-> "I"]
MasteryRecords(u) ==
    <<[puuid |-> u.key, champion_id |-> 1, mastery_points |-> 7],
      [puuid |-> u.key, champion_id |-> 2, mastery_points |-> 0]>>

\* as upsert_mastery, replacing on puuid alone
upsert_mastery_KeyPuuid(table, r) ==
    {cm \in table : ~(r.puuid = cm.puuid)} \cup {r}

\* one INSERT OR REPLACE INTO champion_mastery
upsert_mastery(table, r) ==
    {cm \in table : ~(r.puuid = cm.puuid /\ r.champion_id = cm.champion_id)} \cup {r}

\* cursor.executemany of insert_mastery_batch: the records in list order
RECURSIVE executemany_mastery(_, _)
executemany_mastery(table, records) ==
    IF records = <<>> THEN table
    ELSE executemany_mastery(upsert_mastery(table, Head(records)), Tail(records))

\* a store that holds one player, one match and one mastery row already
InitWrites ==
    /\ InitRequests
    /\ task = "writes"
    /\ run = 0 /\ snapshot = <<>> /\ db_failures = 0 /\ units_started = 0
    /\ cpc = "none"
    /\ target = 0
    /\ fetched = {}
    /\ InitMatchLocals /\ InitPlayerLocals /\ InitMasteryLocals
    /\ InitNoMain /\ InitNoConnection /\ InitNoRegistry
    /\ players = <<[puuid |-> 1, tier |-> "MASTER", rank |-> "I"]>>
    /\ match_ids = {1}
    /\ match_participants = ParticipantRows(1, GoodMatch)
    /\ champion_mastery = {[puuid |-> 1, champion_id |-> 1, mastery_points |-> 7]}
    /\ collection_progress = <<>>
    /\ remote_match = <<>> /\ remote_match_ids = <<>>
    /\ remote_league = <<>> /\ remote_mastery = <<>>
    /\ units_chosen \in SUBSET WriteUnits
    /\ pending = units_chosen
    /\ batch = <<>>

writeFrame == <<reqSide_base, sideVars, remoteVars, runVars, cpc, matchVars, playerVars,
                masteryVars, units_chosen, collection_progress>>

\* db.insert_player for a unit's row
ApplyPlayer(u) ==
    /\ u \in pending /\ u.kind = "player"
    /\ players' = insert_player(u.key, PlayerRow(u).tier, PlayerRow(u).rank)
    /\ pending' = pending \ {u}
    /\ UNCHANGED <<match_ids, match_participants, champion_mastery, batch, writeFrame>>

\* db.insert_match_id, the first write of process_match
ApplyMatchId(u) ==
    /\ u \in pending /\ u.kind = "match"
    /\ match_ids' = match_ids \cup {u.key}
    /\ pending' = (pending \ {u}) \cup {[kind |-> "participants", key |-> u.key]}
    /\ UNCHANGED <<players, match_participants, champion_mastery, batch, writeFrame>>

\* db.insert_match_participants_batch, the second write of process_match
ApplyParticipants(u) ==
    /\ u \in pending /\ u.kind = "participants"
    /\ match_participants' = match_participants \cup ParticipantRows(u.key, GoodMatch)
    /\ pending' = pending \ {u}
    /\ UNCHANGED <<players, match_ids, champion_mastery, batch, writeFrame>>

\* as_completed hands over a mastery call: buffer.extend(records)
ExtendBuffer(u) ==
    /\ u \in pending /\ u.kind = "mastery"
    /\ batch' = batch \o MasteryRecords(u)
    /\ pending' = pending \ {u}
    /\ UNCHANGED <<storeVars, units_chosen, reqSide_base, sideVars, remoteVars, runVars, cpc,
                   matchVars, playerVars, masteryVars>>

\* _flush_buffer: db.insert_mastery_batch(buffer), wherever the batch size
\* cuts the records
FlushBuffer ==
    /\ batch # <<>>
    /\ champion_mastery' = executemany_mastery(champion_mastery, batch)
    /\ batch' = <<>>
    /\ UNCHANGED <<players, match_ids, match_participants, pending, writeFrame>>

NextWrites ==
    \/ \E u \in WriteUnits : ApplyPlayer(u)
    \/ \E u \in WriteUnits : ApplyMatchId(u)
    \/ \E i \in WriteKeys : ApplyParticipants([kind |-> "participants", key |-> i])
    \/ \E u \in WriteUnits : ExtendBuffer(u)
    \/ FlushBuffer

SpecWrites == InitWrites /\ [][NextWrites]_vars

----------------------------------------------------------------------------
(* main of the three collectors: the regions. The collection of one region
   is one call that returns or lets an exception escape. *)

REGIONS == <<"NA", "EUW", "KR">>

RegionIds == DOMAIN REGIONS

\* as region_error_caught, without the try around the region
region_error_caught_Not == FALSE

\* `except Exception as e` around collect_all_for_region and future.result()
region_error_caught == TRUE

Ended(r) == region_state[r] \in {"returned", "raised"}

InitMain ==
    /\ InitRequests
    /\ InitIdle /\ InitNoConnection /\ InitNoRegistry
    /\ main_kind \in {"players", "matches", "mastery"}
    /\ mpc = "start"
    /\ ridx = 1
    /\ region_state = [r \in RegionIds |-> "pending"]
    /\ handled = {}
    /\ errors = 0

collectorFrame == <<connVars, registryVars, now, limVars, reqVars, storeVars, remoteVars, runVars, cpc, matchVars,
                    playerVars, masteryVars, writeVars>>

\* collect_players.main: `for region in regions`, the shutdown test, the call
MainNextRegion ==
    /\ main_kind = "players" /\ mpc \in {"start", "loop"}
    /\ IF ridx > Len(REGIONS) \/ shutdown_event
       THEN /\ mpc' = "summary"
            /\ UNCHANGED region_state
       ELSE /\ region_state' = [region_state EXCEPT ![ridx] = "running"]
            /\ mpc' = "in_region"
    /\ UNCHANGED <<main_kind, ridx, handled, errors, shutdown_event, collectorFrame>>

\* collect_matches.main, collect_mastery.main: one pool thread for each region
MainSubmitAll ==
    /\ main_kind \in {"matches", "mastery"} /\ mpc = "start"
    /\ region_state' = [r \in RegionIds |-> "running"]
    /\ mpc' = "as_completed"
    /\ UNCHANGED <<main_kind, ridx, handled, errors, shutdown_event, collectorFrame>>

\* the collection of region r comes to its end: it returns, or an exception
\* escapes it; in collect_players.main the try around the call goes on with
\* the next region
RegionEnds(r, how) ==
    /\ region_state[r] = "running"
    /\ region_state' = [region_state EXCEPT ![r] = how]
    /\ IF main_kind = "players"
       THEN IF how = "raised" /\ ~region_error_caught
            THEN /\ mpc' = "summary"                  \* the exception ends main
                 /\ UNCHANGED <<ridx, errors>>
            ELSE /\ mpc' = "loop"
                 /\ ridx' = ridx + 1
                 /\ errors' = IF how = "raised" THEN errors + 1 ELSE errors
       ELSE UNCHANGED <<mpc, ridx, errors>>
    /\ UNCHANGED <<main_kind, handled, shutdown_event, collectorFrame>>

\* `for future in as_completed(futures)`: the shutdown test, future.result()
MainCompleted ==
    /\ main_kind \in {"matches", "mastery"} /\ mpc = "as_completed"
    /\ \/ /\ handled = RegionIds
          /\ mpc' = "pool_exit"
          /\ UNCHANGED <<handled, region_state>>
       \/ \E r \in RegionIds \ handled :
             /\ Ended(r)
             /\ IF shutdown_event
                THEN /\ mpc' = "pool_exit"            \* cancel_futures, break
                     /\ region_state' =
                            [q \in RegionIds |->
                                IF region_state[q] = "pending" THEN "cancelled"
                                ELSE region_state[q]]
                     /\ UNCHANGED handled
                ELSE IF region_state[r] = "raised" /\ ~region_error_caught
                THEN /\ mpc' = "pool_exit"            \* the exception leaves the loop
                     /\ region_state' =
                            [q \in RegionIds |->
                                IF region_state[q] = "pending" THEN "cancelled"
                                ELSE region_state[q]]
                     /\ UNCHANGED handled
                ELSE /\ handled' = handled \cup {r}
                     /\ UNCHANGED <<mpc, region_state>>
    /\ UNCHANGED <<main_kind, ridx, errors, shutdown_event, collectorFrame>>

\* the end of the `with` block waits for the region threads still running
MainPoolExit ==
    /\ mpc = "pool_exit"
    /\ \A r \in RegionIds : region_state[r] # "running"
    /\ mpc' = "summary"
    /\ UNCHANGED <<main_kind, ridx, region_state, handled, errors, shutdown_event,
                   collectorFrame>>

\* SIGINT while main runs
MainSignal ==
    /\ ~shutdown_event /\ mpc # "summary"
    /\ shutdown_event' = TRUE
    /\ UNCHANGED <<main_kind, mpc, ridx, region_state, handled, errors, collectorFrame>>

NextMain ==
    \/ MainNextRegion
    \/ MainSubmitAll
    \/ \E r \in RegionIds : RegionEnds(r, "returned")
    \/ \E r \in RegionIds : RegionEnds(r, "raised")
    \/ MainCompleted
    \/ MainPoolExit
    \/ MainSignal

SpecMain == InitMain /\ [][NextMain]_vars

----------------------------------------------------------------------------
(* Database.get_connection: the body of one `with`, then the commit, which
   _retry_on_locked repeats. *)

MAX_RETRIES == 5
INITIAL_BACKOFF == 1                \* seconds

\* what a conn.commit() can do: commit, or raise sqlite3.OperationalError
\* with "locked" or "busy" in its message, sqlite3.OperationalError with
\* another message, or an error of another class
CommitOutcomes == {"ok", "locked", "busy", "disk I/O error", "IntegrityError"}

\* what the body of the `with` can raise
BodyErrors == {"locked", "IntegrityError"}

\* as retry_locked, one attempt more
retry_locked_OneMore(e, n) ==
    e \in {"locked", "busy"} /\ n <= MAX_RETRIES

\* `('locked' in msg or 'busy' in msg) and attempt < MAX_RETRIES`, for the
\* errors the `except sqlite3.OperationalError` clause catches; n is attempt
retry_locked(e, n) ==
    e \in {"locked", "busy"} /\ n < MAX_RETRIES

InitConnection ==
    /\ InitRequests
    /\ InitIdle /\ InitNoMain /\ InitNoRegistry
    /\ conn = "none" /\ tx = "none" /\ xpc = "start"
    /\ commit_attempt = 0 /\ commit_log = <<>> /\ commit_sleeps = <<>>
    /\ raised = "none"

connFrame == <<clockVars, limVars, reqVars, storeVars, remoteVars, runVars, cpc, matchVars,
               playerVars, masteryVars, writeVars, mainVars, registryVars>>

\* sqlite3.connect and the pragmas; the body of the `with` begins
X_Connect ==
    /\ xpc = "start"
    /\ conn' = "open" /\ tx' = "open"
    /\ xpc' = "body"
    /\ UNCHANGED <<commit_attempt, commit_log, commit_sleeps, raised, connFrame>>

\* `except Exception`: conn.rollback(), raise; `finally`: conn.close()
X_Fail(e) ==
    /\ tx' = "rolled_back"
    /\ conn' = "closed"
    /\ raised' = e
    /\ xpc' = "raised"

\* the body ends: _commit_with_retry is entered
X_BodyReturns ==
    /\ xpc = "body"
    /\ xpc' = "commit"
    /\ commit_attempt' = 0
    /\ UNCHANGED <<conn, tx, commit_log, commit_sleeps, raised, connFrame>>

\* the body raises
X_BodyRaises(e) ==
    /\ xpc = "body"
    /\ X_Fail(e)
    /\ UNCHANGED <<commit_attempt, commit_log, commit_sleeps, connFrame>>

\* one pass of `for attempt in range(MAX_RETRIES + 1)`: conn.commit()
X_Commit(outcome) ==
    /\ xpc = "commit"
    /\ commit_log' = Append(commit_log, outcome)
    /\ IF outcome = "ok"
       THEN /\ tx' = "committed"
            /\ conn' = "closed"
            /\ xpc' = "returned"
            /\ UNCHANGED <<commit_sleeps, raised>>
       ELSE IF retry_locked(outcome, commit_attempt)
       THEN /\ commit_sleeps' = Append(commit_sleeps, INITIAL_BACKOFF * Pow2(commit_attempt))
            /\ xpc' = "sleep"
            /\ UNCHANGED <<conn, tx, raised>>
       ELSE /\ X_Fail(outcome)
            /\ UNCHANGED commit_sleeps
    /\ UNCHANGED <<commit_attempt, connFrame>>

\* time.sleep(wait) ends; the next pass of the loop, or its end, after which
\* the wrapper returns without a commit
X_Wake ==
    /\ xpc = "sleep"
    /\ commit_attempt' = commit_attempt + 1
    /\ IF commit_attempt + 1 < MAX_RETRIES + 1
       THEN /\ xpc' = "commit"
            /\ UNCHANGED <<conn, tx>>
       ELSE /\ xpc' = "returned"
            /\ conn' = "closed"
            /\ tx' = "rolled_back"
    /\ UNCHANGED <<commit_log, commit_sleeps, raised, connFrame>>

NextConnection ==
    \/ X_Connect
    \/ X_BodyReturns
    \/ \E e \in BodyErrors : X_BodyRaises(e)
    \/ \E outcome \in CommitOutcomes : X_Commit(outcome)
    \/ X_Wake

SpecConnection == InitConnection /\ [][NextConnection]_vars

----------------------------------------------------------------------------
(* RiotAPIClient._get_limiter: threads ask for the limiter of a key and call
   wait_if_needed on the one they are given. *)

MaxGets == 2            \* _get_limiter calls one thread makes

\* (endpoint_group, region)
LimiterKeys == {<<"league-v4", "NA">>, <<"match-v5", "NA">>, <<"match-v5", "KR">>}

\* as limiter_lock_free, the `with self.limiter_lock` letting everyone in
limiter_lock_free_Always == TRUE

\* `with self.limiter_lock:` can be entered
limiter_lock_free == limiter_lock = 0

InitRegistry ==
    /\ InitRequests
    /\ InitIdle /\ InitNoMain /\ InitNoConnection
    /\ limiters = [k \in LimiterKeys |-> 0]
    /\ limiter_lock = 0
    /\ instances = <<>>
    /\ gpc = [t \in Threads |-> "idle"]
    /\ gkey = [t \in Threads |-> <<"league-v4", "NA">>]
    /\ missing = [t \in Threads |-> FALSE]
    /\ received = [t \in Threads |-> <<>>]
    /\ gets = [t \in Threads |-> 0]

registryFrame == <<clockVars, limVars, reqVars, storeVars, remoteVars, runVars, cpc, matchVars,
                   playerVars, masteryVars, writeVars, mainVars, connVars>>

\* _get_limiter(endpoint_group, region) is called: `key = ...`
G_Call(t, k) ==
    /\ gpc[t] = "idle" /\ gets[t] < MaxGets
    /\ gets' = [gets EXCEPT ![t] = @ + 1]
    /\ gkey' = [gkey EXCEPT ![t] = k]
    /\ gpc' = [gpc EXCEPT ![t] = "enter"]
    /\ UNCHANGED <<limiters, limiter_lock, instances, missing, received, registryFrame>>

\* `with self.limiter_lock:` and the test `key not in self.limiters`
G_Test(t) ==
    /\ gpc[t] = "enter"
    /\ limiter_lock_free
    /\ limiter_lock' = t
    /\ missing' = [missing EXCEPT ![t] = (limiters[gkey[t]] = 0)]
    /\ gpc' = [gpc EXCEPT ![t] = "tested"]
    /\ UNCHANGED <<limiters, instances, gkey, received, gets, registryFrame>>

\* `self.limiters[key] = RateLimiter(...)` when the key was missing
G_Create(t) ==
    /\ gpc[t] = "tested"
    /\ IF missing[t]
       THEN /\ instances' = Append(instances, [key |-> gkey[t], served |-> <<>>])
            /\ limiters' = [limiters EXCEPT ![gkey[t]] = Len(instances) + 1]
       ELSE UNCHANGED <<limiters, instances>>
    /\ gpc' = [gpc EXCEPT ![t] = "created"]
    /\ UNCHANGED <<limiter_lock, gkey, missing, received, gets, registryFrame>>

\* `return self.limiters[key]`, the lock is released
G_Return(t) ==
    /\ gpc[t] = "created"
    /\ received' = [received EXCEPT ![t] = Append(@, <<gkey[t], limiters[gkey[t]]>>)]
    /\ limiter_lock' = 0
    /\ gpc' = [gpc EXCEPT ![t] = "use"]
    /\ UNCHANGED <<limiters, instances, gkey, missing, gets, registryFrame>>

\* limiter.wait_if_needed() on the instance returned: its queues take the call
G_Use(t) ==
    /\ gpc[t] = "use"
    /\ LET limiter == received[t][Len(received[t])][2]
       IN  instances' = [instances EXCEPT ![limiter].served = Append(@, gkey[t])]
    /\ gpc' = [gpc EXCEPT ![t] = "idle"]
    /\ UNCHANGED <<limiters, limiter_lock, gkey, missing, received, gets, registryFrame>>

NextRegistry ==
    \/ \E t \in Threads : \E k \in LimiterKeys : G_Call(t, k)
    \/ \E t \in Threads : G_Test(t)
    \/ \E t \in Threads : G_Create(t)
    \/ \E t \in Threads : G_Return(t)
    \/ \E t \in Threads : G_Use(t)

SpecRegistry == InitRegistry /\ [][NextRegistry]_vars

----------------------------------------------------------------------------
(* collect_all_for_region of collect_matches.py: the loop that computes the
   cumulative group targets, for the targets main can give it. *)

TargetMax == 30         \* the targets go from 1 up to here

InitTargets ==
    /\ InitRequests
    /\ InitEmpty /\ InitNoMain /\ InitNoConnection /\ InitNoRegistry
    /\ task = "targets"
    /\ cpc = "group_targets"
    /\ target \in 1..TargetMax

\* one pass of `for group_name, _ in TIER_GROUPS`: group_targets[group_name]
\* is set; `group` counts the groups that have their target
T_GroupTarget ==
    /\ task = "targets" /\ cpc = "group_targets"
    /\ group < Len(TIER_GROUPS)
    /\ group' = group + 1
    /\ UNCHANGED <<target, puuids, pidx, match_list, midx, new_matches, total_new,
                   failed_match_ids, cur_match, fetched>>
    /\ UNCHANGED <<reqSide, playerVars, masteryVars, storeVars, remoteVars, runVars, cpc>>

NextTargets == T_GroupTarget

SpecTargets == InitTargets /\ [][NextTargets]_vars

----------------------------------------------------------------------------
(* collect_mastery_for_region with players who need many champions, so that
   the buffer reaches BATCH_SIZE inside the as_completed loop *)

NumBufferPuuids == 3    \* players with pending mastery

\* the champions each of them needs: two futures fill the buffer
BufferChamps == 1..(BATCH_SIZE \div 2)

InitBuffer ==
    /\ InitRequests
    /\ InitRun
    /\ InitLocals
    /\ task = "mastery"
    /\ target = 0
    /\ players = <<>>
    /\ match_ids = {1}
    /\ match_participants =
           {[match_id |-> 1, puuid |-> p, champion_id |-> c] :
               p \in 1..NumBufferPuuids, c \in BufferChamps}
    /\ champion_mastery = {}
    /\ collection_progress = <<>>
    /\ remote_match = <<>> /\ remote_match_ids = <<>> /\ remote_league = <<>>
    /\ \E failing \in 0..NumBufferPuuids :
          remote_mastery =
              [p \in 1..NumBufferPuuids |->
                  [stream |-> IF p = failing THEN <<"503", "503", "503">> ELSE <<"200">>,
                   champs |-> IF p % 2 = 1 THEN BufferChamps ELSE {}]]

NextBuffer ==
    \/ Y_Enter
    \/ Y_Submit
    \/ \E i \in 1..NumBufferPuuids : W_Start(i)
    \/ \E i \in 1..NumBufferPuuids : W_Finish(i)
    \/ Y_Completed
    \/ Y_CompletedFlushFails
    \/ Y_PoolExit
    \/ Y_Flush
    \/ Y_FlushFails
    \/ SignalHandler

SpecBuffer == InitBuffer /\ [][NextBuffer]_vars

----------------------------------------------------------------------------
(* Properties of the limiter and of _make_request *)

ReleaseTimes == [i \in DOMAIN release_log |-> release_log[i][1]]

\* the number of entries of the sequence of ticks q inside [from, from + window)
InWindow(q, from, window) ==
    Cardinality({j \in DOMAIN q : q[j] >= from /\ q[j] < from + window})

AllIn(q, S) == \A i \in DOMAIN q : q[i] \in S

\* C1: the requests released inside any 1-second window never exceed per_second,
\* and inside any 120-second window never exceed int(per_2min * 0.95), whatever
\* the interleaving of the threads' wait_if_needed calls.
C1_WindowLimits ==
    \A i \in DOMAIN release_log :
        /\ InWindow(ReleaseTimes, ReleaseTimes[i], SecondWindow) <= per_second_limit
        /\ InWindow(ReleaseTimes, ReleaseTimes[i], TwoMinWindow) <= per_2min_limit

\* the releases made once a cool-down had begun and was over
AfterCooldown ==
    SelectSeq(release_log, LAMBDA e : e[2] > 0 /\ e[1] >= e[2])

\* C2: after a 429 with retry-after h no thread sends a request to the key
\* before h has passed since the 429, threads asleep on a reserved slot
\* included, and the calls released after the cool-down respect per_second.
C2_CooldownRespected ==
    /\ \A i \in DOMAIN release_log : release_log[i][1] >= release_log[i][2]
    /\ LET q == [i \in DOMAIN AfterCooldown |-> AfterCooldown[i][1]]
       IN \A i \in DOMAIN q : InWindow(q, q[i], SecondWindow) <= per_second_limit

\* C3: a 429 never uses up the attempts: a request does not end on a 429, and
\* one that received k 429 responses and then a 200 returns the payload after
\* k resets, each followed by a sleep of the retry-after hint.
C3_Uncapped429 ==
    \A t \in Threads :
        (pc[t] = "done" /\ resp_log[t] # <<>>) =>
            LET n == Len(resp_log[t])
            IN /\ resp_log[t][n] # "429"
               /\ (AllIn(SubSeq(resp_log[t], 1, n - 1), {"429"}) /\ resp_log[t][n] = "200") =>
                     /\ result[t] = Payload
                     /\ reset_count[t] = n - 1
                     /\ Len(sleep_log[t]) = n - 1
                     /\ \A i \in 1..(n - 1) : sleep_log[t][i][1] = "retry_after"

\* C5: a 400 or a 404 ends the request at once: it is the last response, the
\* result is None, nothing is raised, no sleep follows it and the limiter is
\* not reset; as the first response it makes the request one attempt long.
C5_PermanentNoRetry ==
    \A t \in Threads : \A i \in DOMAIN resp_log[t] :
        resp_log[t][i] \in {"400", "404"} =>
            /\ pc[t] = "done"
            /\ i = Len(resp_log[t])
            /\ result[t] = None
            /\ Len(sleep_log[t]) = i - 1
            /\ i = 1 => (reset_count[t] = 0 /\ sleep_log[t] = <<>>)
            /\ reset_count[t] = Count429(t)

C5_Witness ==
    /\ pc[1] = "done"
    /\ resp_log[1] = <<"400">>
    /\ result[1] = None

InLimiterSleep == \E t \in Threads : pc[t] = "sleeping"

\* C9: the sleep of wait_if_needed is interruptible: once the shutdown event
\* is set no thread stays asleep in the limiter while the clock advances.
C9_SleepInterruptible ==
    [][(shutdown_event /\ InLimiterSleep) => now' = now]_vars

----------------------------------------------------------------------------
(* Properties of the match collector *)

\* process_match is over for match m
Processed(m) == m \in fetched /\ ~(cpc = "fetching" /\ match_list[midx] = m)

\* every attempt up to the retry ceiling is answered 502 or 503
AllUnavailable(stream) ==
    /\ Len(stream) >= max_retries
    /\ \A i \in 1..max_retries : stream[i] \in {"502", "503"}

\* C4: when every attempt of a match fetch up to the retry ceiling gets 502 or
\* 503, the request raises TransientAPIError instead of returning None, and
\* collect_matches_for_player puts the match id into failed_match_ids.
C4_TransientDeferred ==
    \A m \in DOMAIN remote_match :
        (run = 1 /\ Processed(m) /\ AllUnavailable(remote_match[m].stream))
            => /\ get_match_raises(m)
               /\ m \in Range(failed_match_ids)

\* the three conditions on a fetched match
MeetsRequirements(d) ==
    /\ d.queueId = RANKED_SOLO_QUEUE_ID
    /\ d.participants = ExpectedParticipants
    /\ d.gameDuration > MINIMUM_GAME_DURATION

HasRows(m) == \E row \in match_participants : row.match_id = m

Deferred(m) ==
    /\ m \in fetched
    /\ AllUnavailable(remote_match[m].stream)

\* C12: a match whose fetch ran out of attempts on 502/503 in the main pass is
\* not fetched again during the main pass, and when the main pass is over with
\* such a match and no shutdown, the run does not return before the cool-down
\* and the retry pass.
C12_DeferredRetriedOnce ==
    [][(task = "matches" /\ run = 1)
        => /\ (cpc = "match_head" /\ cpc' = "fetching")
                  => ~Deferred(match_list[midx])
           /\ (cpc = "retry_check" /\ ~shutdown_event
                  /\ \E m \in DOMAIN remote_match : Deferred(m))
                  => cpc' # "done"]_vars

----------------------------------------------------------------------------
(* Properties of a collector run twice, and of shutdown *)

C10_NoUnitStartsAfterShutdown ==
    [][shutdown_event => units_started' = units_started]_vars

----------------------------------------------------------------------------
(* Properties of the player collector and its checkpoints *)

\* C11: when the checkpoint of the tier/division collect_tier_division is
\* called for is completed, the call sends no request, writes no player row,
\* leaves the checkpoint rows as they are and adds 0 to the total.
C11_CompletedSkipped ==
    [][(task = "players" /\ cpc = "start" /\ unit <= NumUnits
            /\ collection_progress[unit] = "completed")
        => /\ units_started' = units_started
           /\ players' = players
           /\ collection_progress' = collection_progress
           /\ total' = total
           /\ cpc' \in {"start", "done"}]_vars

\* a restarted run has passed the completed first tier/division without a
\* request
C11_Witness ==
    /\ task = "players" /\ run = 2 /\ cpc = "start"
    /\ snapshot.reset = 0
    /\ unit = 2
    /\ collection_progress[1] = "completed"
    /\ units_started = snapshot.units_started

\* C14: a failure on one unit does not end the collection: unless shutdown was
\* requested, the player collector stops only after its last tier/division and
\* the mastery collector only when every pending pair has its row.
C14_FailureIsolated ==
    (cpc \in {"done", "crashed"} /\ ~shutdown_event)
        => /\ task = "players" => unit > NumUnits
           /\ task = "mastery" => PendingPairs = {}

----------------------------------------------------------------------------
(* Properties of writes made in any order *)

Chosen(kind) == {u \in units_chosen : u.kind = kind}

Raised == {r \in DOMAIN region_state : region_state[r] = "raised"}

\* C15: when main reaches its summary without a shutdown request, the
\* collection of every region has run to its own end, by return or by
\* exception, whichever regions raised: the sequential player collector has
\* gone through all regions and counted one error for each that raised, and
\* the as_completed loop of the match and mastery collectors has taken the
\* result of every region's future.
C15_SiblingRegionsCollected ==
    (mpc = "summary" /\ ~shutdown_event) =>
        /\ \A r \in RegionIds : Ended(r)
        /\ main_kind = "players" => (ridx = Len(REGIONS) + 1 /\ errors = Cardinality(Raised))
        /\ main_kind \in {"matches", "mastery"} => handled = RegionIds

\* the first region raised, the ones after it returned, main is at its summary
C15_Witness ==
    /\ mpc = "summary" /\ ~shutdown_event
    /\ region_state = [r \in RegionIds |-> IF r = 1 THEN "raised" ELSE "returned"]


\* C16: a tier/division whose collection is stopped, by the shutdown flag, by
\* a crash or by a failing write, is not left completed; and when the run
\* started after it (without --reset) finishes, the players table is the one
\* a single uninterrupted run on an empty store produces, the rows stored
\* before the restart are its first rows, unchanged, and no puuid has two rows.
C16_ResumeWithoutLossOrDuplication ==
    [][task = "players" =>
         /\ (/\ cpc \in {"fetching", "entry_head"}
             /\ cpc' = "crashed" \/ (shutdown_event /\ cpc' = "start"))
                => collection_progress'[unit] # "completed"
         /\ (/\ run = 2 /\ snapshot.reset = 0
             /\ cpc = "start" /\ cpc' = "done" /\ ~shutdown_event)
                => /\ players' = UninterruptedRun(<<>>, 1)
                   /\ Len(players') >= Len(snapshot.players)
                   /\ SubSeq(players', 1, Len(snapshot.players)) = snapshot.players
                   /\ \A a, b \in DOMAIN players' :
                          players'[a].puuid = players'[b].puuid => a = b]_vars

\* the first run was stopped after it had stored a player, and the
\* second run, without --reset, has finished and stored players of its own
C16_Witness ==
    /\ task = "players" /\ run = 2 /\ cpc = "done" /\ ~shutdown_event
    /\ snapshot.reset = 0 /\ snapshot.interrupted
    /\ snapshot.players # <<>>
    /\ Len(players) > Len(snapshot.players)
    /\ \E k \in 1..NumUnits : Len(remote_league[k].pages) = 2


\* C17: when one of the two writes of process_match raises, the match counts
\* as not yet collected: match_exists is false for it after the step.
C17_FailedWriteNotCollected ==
    [][(/\ task = "matches" /\ cpc \in {"write_id", "write_participants"}
        /\ db_failures' = db_failures + 1)
          => match_list[midx] \notin match_ids']_vars

\* C19: while collect_matches runs and at its end, every row of match_ids has
\* exactly ten rows of match_participants with its match_id, except between
\* the two writes of a process_match that is still to make its second one.
C19_TenParticipantsPerMatch ==
    (task = "matches" /\ cpc # "write_participants") =>
        \A m \in match_ids :
            Cardinality({row \in match_participants : row.match_id = m})
                = ExpectedParticipants


ForwardMoves ==
    {<<"none", "in_progress">>, <<"in_progress", "completed">>,
     <<"in_progress", "failed">>}

\* in this step every checkpoint keeps its status, makes one of the moves
\* `moves`, or is deleted by the --reset of a starting run
ProgressStep(moves) ==
    task = "players" =>
        \A k \in DOMAIN collection_progress :
            \/ collection_progress'[k] = collection_progress[k]
            \/ <<collection_progress[k], collection_progress'[k]>> \in moves
            \/ /\ collection_progress'[k] = "none"
               /\ run' = run + 1 /\ snapshot'.reset = k

\* C20 as stated: over runs, restarts and resets a checkpoint's status only
\* moves absent -> in_progress -> {completed, failed}; from completed or
\* failed it never goes back to in_progress, and it becomes absent only by
\* the reset.
C20_ForwardOnly == [][ProgressStep(ForwardMoves)]_vars

\* C20, amended: a checkpoint's status moves absent -> in_progress ->
\* {completed, failed}, and from failed back to in_progress when a later run
\* takes the unit up again; from completed it never goes back to
\* in_progress, and it becomes absent only by the reset.
C20_CompletedIsFinal ==
    [][ProgressStep(ForwardMoves \cup {<<"failed", "in_progress">>})]_vars

\* the second run has taken up the unit the first run left failed, with
\* completed units before it left as they were
C20_Witness ==
    /\ task = "players" /\ run = 2 /\ snapshot.reset = 0
    /\ snapshot.db_failures = 1 /\ units_started = snapshot.units_started + 1
    /\ unit > 1 /\ cpc = "fetching"
    /\ collection_progress[unit] = "in_progress"
    /\ \A k \in 1..(unit - 1) : collection_progress[k] = "completed"


\* C21: a tier/division checkpoint becomes completed only when the whole
\* group was collected: not in a step the shutdown flag has stopped, and not
\* when the fetch of its pages ended in a request that failed.
C21_CompletedOnlyWholeGroup ==
    [][task = "players" =>
         \A k \in DOMAIN collection_progress :
             (collection_progress[k] # "completed" /\ collection_progress'[k] = "completed")
                 => /\ ~shutdown_event
                    /\ RunRequest(remote_league[k].stream) = Payload]_vars


C23_ResetBackfills ==
    [][\A t \in Threads :
          /\ (pc[t] = "reset_locked" /\ pc'[t] = "sleep429")
                => /\ Len(per_second_requests') = per_second_limit
                   /\ Len(per_2min_requests') = per_2min_limit
                   /\ \A i \in DOMAIN per_second_requests' : per_second_requests'[i] = now
                   /\ \A i \in DOMAIN per_2min_requests' : per_2min_requests'[i] = now
          /\ (/\ pc[t] = "locked" /\ pc'[t] # "locked"
              /\ reset_time >= 0 /\ now < reset_time + TwoMinWindow)
                => /\ pc'[t] = "sleeping"
                   /\ wake'[t] > now]_vars

\* after a 429 and the reset, the caller's next wait_if_needed has slept
\* until the backfilled entries were 120.1 seconds old, and has returned
C23_Witness ==
    /\ reset_time >= 0
    /\ reset_count[1] = 1
    /\ pc[1] = "inflight"
    /\ now = wake[1] /\ now = reset_time + TwoMinWindow + RATE_LIMIT_BUFFER
    /\ Len(release_log) = 2
    /\ Len(per_2min_requests) = per_2min_limit + 1


Last(q) == q[Len(q)]

\* C24: no thread is asleep in the limiter while it owns the lock, so the
\* lock is free for the other threads whenever nobody is inside the locked
\* part; and the step of wait_if_needed that releases the lock to go to sleep
\* has put the caller's reservation, the time it will wake, at the end of
\* both queues.
C24_NoSleepUnderLock ==
    [][\A t \in Threads :
          /\ pc'[t] = "sleeping" => lock' # t
          /\ (\A u \in Threads : pc'[u] \notin {"locked", "reset_locked"}) => lock' = 0
          /\ (pc[t] = "locked" /\ pc'[t] = "sleeping")
                => /\ lock = t /\ lock' = 0
                   /\ Last(per_second_requests') = wake'[t]
                   /\ Last(per_2min_requests') = wake'[t]]_vars

\* one thread is asleep in the limiter and another one is inside
\* wait_if_needed, holding the lock
C24_Witness ==
    \E t, u \in Threads :
        /\ pc[t] = "sleeping" /\ wake[t] > now
        /\ pc[u] = "locked" /\ lock = u


LockErrors == {"locked", "busy"}

\* C25: a commit that fails with a lock or busy error is tried again after
\* 1, 2, 4, 8, 16 seconds, at most 5 times (6 commits); get_connection ends
\* by the error of the last commit when that was the sixth lock or busy
\* error or an error of another kind, by the body's error when the body
\* raised, and otherwise by the commit; whenever it ends by an error the
\* transaction is rolled back and the connection closed.
C25_CommitRetried ==
    /\ Len(commit_log) <= MAX_RETRIES + 1
    /\ Len(commit_sleeps) <= MAX_RETRIES
    /\ \A i \in DOMAIN commit_sleeps : commit_sleeps[i] = Pow2(i - 1)
    /\ \A i \in DOMAIN commit_log :
          i < Len(commit_log) => commit_log[i] \in LockErrors
    /\ xpc \in {"commit", "sleep"} =>
          /\ conn = "open" /\ tx = "open"
          /\ \A i \in DOMAIN commit_log : commit_log[i] \in LockErrors
          /\ Len(commit_sleeps) = Len(commit_log)
    /\ xpc = "returned" =>
          /\ commit_log # <<>> /\ commit_log[Len(commit_log)] = "ok"
          /\ tx = "committed" /\ conn = "closed" /\ raised = "none"
    /\ xpc = "raised" =>
          /\ tx = "rolled_back" /\ conn = "closed"
          /\ commit_log # <<>> =>
                /\ raised = commit_log[Len(commit_log)] /\ raised # "ok"
                /\ raised \in LockErrors => Len(commit_log) = MAX_RETRIES + 1
                /\ Len(commit_sleeps) = Len(commit_log) - 1
          /\ commit_log = <<>> => raised \in BodyErrors

\* six commits met a lock or busy error, with sleeps of 1, 2, 4, 8 and 16
\* seconds between them, and the last error has come out
C25_Witness ==
    /\ xpc = "raised" /\ raised = "busy"
    /\ Len(commit_log) = MAX_RETRIES + 1
    /\ commit_log[1] = "locked"
    /\ commit_sleeps = <<1, 2, 4, 8, 16>>
    /\ tx = "rolled_back" /\ conn = "closed"


\* C26: no key has two RateLimiter instances; whatever the interleaving of
\* the _get_limiter calls, every caller of a key is given the one instance
\* the key has in self.limiters; and an instance only ever serves calls made
\* for its own key, so a call on one key leaves the queues of the others alone.
C26_OneLimiterPerKey ==
    /\ \A i, j \in DOMAIN instances : instances[i].key = instances[j].key => i = j
    /\ \A t \in DOMAIN received : \A n \in DOMAIN received[t] :
          /\ received[t][n][2] \in DOMAIN instances
          /\ received[t][n][2] = limiters[received[t][n][1]]
          /\ instances[received[t][n][2]].key = received[t][n][1]
    /\ \A i \in DOMAIN instances : \A n \in DOMAIN instances[i].served :
          instances[i].served[n] = instances[i].key

\* two threads asked for the same key at the same time and both have used
\* the one instance made for it, while another key has an instance of its own
C26_Witness ==
    /\ Len(instances) = 2
    /\ \E t, u \in Threads :
          /\ t # u
          /\ received[t] # <<>> /\ received[u] # <<>>
          /\ received[t][1] = received[u][1]
          /\ gets[t] = 1 /\ gets[u] = 2 /\ gpc[u] = "idle"
          /\ received[u][2][1] # received[u][1][1]
          /\ Len(instances[received[t][1][2]].served) = 2


\* the record the mastery collector is to make for puuid p and champion c
MasteryRecordFor(p, c) ==
    LET has == /\ RunRequest(remote_mastery[p].stream) = Payload
               /\ c \in remote_mastery[p].champs
    IN  [puuid |-> p, champion_id |-> c,
         mastery_points |-> IF has THEN 7 ELSE 0,
         mastery_level |-> IF has THEN 5 ELSE 0]

\* C27: for every puuid the mastery collector has dispatched, with its list
\* of needed champions, the worker's records are one for each champion of
\* the list and no other: the service's points where the response has the
\* champion, 0 points and no level otherwise, also when the request failed;
\* and once the collector has flushed and returned, the pairs of every
\* future it took are stored with these values and are no longer pending.
C27_OneRecordPerNeededChampion ==
    (task = "mastery" /\ cpc \notin {"start", "none"}) =>
        /\ \A i \in DOMAIN puuid_list :
              LET p == puuid_list[i].puuid
                  L == puuid_list[i].champs
                  records == _fetch_mastery_for_puuid(p, L)
              IN  /\ L # {}
                  /\ records = {MasteryRecordFor(p, c) : c \in L}
                  /\ Cardinality(records) = Cardinality(L)
        /\ cpc = "done" =>
              \A i \in yielded : \A c \in puuid_list[i].champs :
                  /\ <<puuid_list[i].puuid, c>> \notin PendingPairs
                  /\ MasteryRecordFor(puuid_list[i].puuid, c) \in champion_mastery

\* the collector has returned after taking the future of a puuid whose
\* request failed with 503 three times, and of one the service has no
\* entry for; their pairs are stored with 0 points
C27_Witness ==
    /\ task = "mastery" /\ run = 1 /\ cpc = "done" /\ ~shutdown_event
    /\ \E i, j \in yielded :
          /\ RunRequest(remote_mastery[puuid_list[i].puuid].stream) # Payload
          /\ RunRequest(remote_mastery[puuid_list[j].puuid].stream) = Payload
          /\ remote_mastery[puuid_list[j].puuid].champs = {}
          /\ \E r \in champion_mastery : r.puuid = puuid_list[i].puuid /\ r.mastery_points = 0
    /\ PendingPairs = {}


\* C28: the cumulative sub-targets of the tier groups, in the order apex,
\* diamond, emerald, never decrease and never exceed the target, and the
\* sub-target of the last group is the target itself, for every target >= 1.
C28_LastGroupTargetIsTarget ==
    task = "targets" =>
        /\ \A g \in 1..group :
              /\ group_targets(target, g) <= target
              /\ g > 1 => group_targets(target, g - 1) <= group_targets(target, g)
        /\ group = Len(TIER_GROUPS) => group_targets(target, group) = target


\* the records of the futures the as_completed loop has taken
TakenRecords ==
    UNION {_fetch_mastery_for_puuid(puuid_list[i].puuid, puuid_list[i].champs) :
              i \in yielded}

\* C29: in the mastery collector every record taken from a completed future
\* is in the buffer or in exactly one committed batch, and nothing else is;
\* the buffer holds BATCH_SIZE records or more at the head of the loop only
\* after a flush that raised, which kept them; and when the collector has
\* returned, with or without a shutdown, the buffer is empty and every
\* record taken is stored.
C29_BufferFlushedOnce ==
    (task = "mastery" /\ cpc \notin {"start", "none"}) =>
        /\ TakenRecords = buffer \cup UNION {committed[n] : n \in DOMAIN committed}
        /\ \A n \in DOMAIN committed :
              /\ committed[n] \cap buffer = {}
              /\ committed[n] \subseteq champion_mastery
              /\ \A m \in DOMAIN committed : m # n => committed[m] \cap committed[n] = {}
        /\ collected = Cardinality(TakenRecords)
        /\ Cardinality(buffer) >= BATCH_SIZE => db_failures > 0
        /\ cpc = "done" =>
              /\ buffer = {}
              /\ TakenRecords \subseteq champion_mastery

\* a flush inside the loop raised, the records stayed in the buffer, the
\* next future's flush committed them together with its own records, and
\* the collector has returned
C29_Witness ==
    /\ task = "mastery" /\ cpc = "done" /\ ~shutdown_event
    /\ db_failures = 1
    /\ Len(committed) = 1
    /\ Cardinality(committed[1]) > BATCH_SIZE
    /\ yielded = DOMAIN puuid_list
    /\ buffer = {}


NonDecreasing(q) == \A i \in 1..(Len(q) - 1) : q[i] <= q[i + 1]

\* C30: in every reachable state of a RateLimiter the timestamps of each
\* window queue are in non-decreasing order from head to tail.
C30_QueuesOrdered ==
    /\ NonDecreasing(per_second_requests)
    /\ NonDecreasing(per_2min_requests)

====
